---- MODULE Spec2Model ----
(***************************************************************************)
(* Verification model of the AlphaNeuron decision-and-matching engine.     *)
(*                                                                         *)
(* The module holds several sub-machines over one state:                   *)
(*   SpecLedger  - AgentDecision status transitions (models/decision.py)   *)
(*   SpecLoop    - NeuroLogisticsSupervisor.run_decision_loop              *)
(*   SpecFleet   - vehicle load bookkeeping (ORM Vehicle and DataStore)    *)
(*   SpecEval    - DecisionEngine.evaluate_situation on the asyncio loop   *)
(*   SpecMatch   - capacity / backhaul matching entry points               *)
(*   SpecHistory - the writers of the per-mission decision logs            *)
(*   SpecAdvisory- entry points that consult the language model            *)
(*   SpecRouting - route lookup behind mission plans and dead-mile costs   *)
(*   SpecFare    - the two fare computations                               *)
(*   SpecBackhaul- ranked capacity and backhaul matches                    *)
(*   SpecEta     - the optimistic / expected / pessimistic ETA ranges      *)
(*   SpecAlerts  - the alerts of _observe                                  *)
(*   SpecRisk    - the two risk assessments                                *)
(*   SpecPool    - several LTL loads pooled on one mission                 *)
(*   SpecLoads   - matching and cancelling ORM loads                       *)
(*   SpecLifecycle - the mission lifecycle endpoints                       *)
(*   SpecTasks   - run_decision_loop coroutines started concurrently       *)
(* SpecLoop carries weights in whole tons; the fleet, store and matching   *)
(* machines carry them in tenths of a ton (2.5 t is 25).  None is the      *)
(* string "None".                                                          *)
(* The routes and fares machines carry whole tons, km and rupees.          *)
(***************************************************************************)
EXTENDS Integers, Naturals, Sequences, FiniteSets, TLC

VARIABLES
    decisions,            \* AgentDecision rows: id -> columns
    now,                  \* datetime.utcnow() as a counter
    outcome,              \* what the last AgentDecision method call did
    observation_history,  \* NeuroLogisticsSupervisor.observation_history
    decision_history,     \* NeuroLogisticsSupervisor.decision_history
    action_queue,         \* NeuroLogisticsSupervisor.action_queue
    loop_tasks,           \* run_decision_loop coroutines on the event loop
    vehicle_rows,         \* ORM table vehicles: id -> columns
    load_rows,            \* ORM table loads: id -> columns
    mission_load_rows,    \* ORM table mission_loads, in insertion order
    mission_rows,         \* ORM table missions: id -> columns
    missions,             \* DataStore.missions, mission id = position
    vehicles,             \* DataStore.vehicles: id -> dict
    decision_logs,        \* DataStore.decision_logs, by mission id
    clock,                \* datetime.now() in hours
    evaluations,          \* evaluate_situation coroutines on the event loop
    matches,              \* what the last matching entry point returned
    catalogue,            \* current_rate of the AVAILABLE_LOADS dicts, by id
    response,             \* what the last load-accepting entry point answered
    quotes                \* the routes and fares quoted so far, in call order

ledgerVars == <<decisions, now, outcome>>
loopVars ==
    <<observation_history, decision_history, action_queue, loop_tasks>>
ormVars == <<vehicle_rows, load_rows, mission_load_rows, mission_rows>>
storeVars == <<missions, vehicles, decision_logs>>
evalVars == <<clock, evaluations>>
matchVars == <<matches, catalogue>>
replyVars == <<response>>
planVars == <<quotes>>

None == "None"

(***************************************************************************)
(* AgentDecision  (models/decision.py)                                     *)
(***************************************************************************)
NumDecisions == 2
MaxClock == 3

DecisionIds == 1..NumDecisions

DecisionStatus ==
    {"pending", "accepted", "rejected", "auto_accepted", "expired", "executed"}

DecidedBy == {"driver", "operator"}
RejectionReasons == {"detour too long"}

\* A freshly inserted row: status takes the column default, the outcome
\* columns are NULL (a NULL timestamp is 0, the clock starts at 1).
NewAgentDecision ==
    [status |-> "pending", decided_at |-> 0, decided_by |-> None,
     rejection_reason |-> None, executed_at |-> 0]

\* AgentDecision.accept: three unconditional assignments.
accept(d, decided_by) ==
    /\ now < MaxClock
    /\ decisions' = [decisions EXCEPT
            ![d].status = "accepted",
            ![d].decided_at = now,
            ![d].decided_by = decided_by]
    /\ now' = now + 1
    /\ outcome' = [op |-> "accept", id |-> d, raised |-> None,
                   before |-> decisions[d]]

\* AgentDecision.reject: four unconditional assignments.
reject(d, reason, decided_by) ==
    /\ now < MaxClock
    /\ decisions' = [decisions EXCEPT
            ![d].status = "rejected",
            ![d].decided_at = now,
            ![d].decided_by = decided_by,
            ![d].rejection_reason = reason]
    /\ now' = now + 1
    /\ outcome' = [op |-> "reject", id |-> d, raised |-> None,
                   before |-> decisions[d]]

\* AgentDecision.mark_executed: unconditional as well.
mark_executed(d) ==
    /\ now < MaxClock
    /\ decisions' = [decisions EXCEPT
            ![d].status = "executed",
            ![d].executed_at = now]
    /\ now' = now + 1
    /\ outcome' = [op |-> "mark_executed", id |-> d, raised |-> None,
                   before |-> decisions[d]]

InitLedger ==
    /\ decisions = [d \in DecisionIds |-> NewAgentDecision]
    /\ now = 1
    /\ outcome = [op |-> None, id |-> 0, raised |-> None,
                  before |-> NewAgentDecision]

AcceptStep ==
    /\ \E d \in DecisionIds, by \in DecidedBy : accept(d, by)
    /\ UNCHANGED <<loopVars, ormVars, storeVars, evalVars, matchVars,
                   replyVars, planVars>>

RejectStep ==
    /\ \E d \in DecisionIds, r \in RejectionReasons, by \in DecidedBy :
           reject(d, r, by)
    /\ UNCHANGED <<loopVars, ormVars, storeVars, evalVars, matchVars,
                   replyVars, planVars>>

ExecuteStep ==
    /\ \E d \in DecisionIds : mark_executed(d)
    /\ UNCHANGED <<loopVars, ormVars, storeVars, evalVars, matchVars,
                   replyVars, planVars>>

NextLedger == AcceptStep \/ RejectStep \/ ExecuteStep


(***************************************************************************)
(* Python string helpers.  TLC evaluates Len, SubSeq and \o on strings.    *)
(***************************************************************************)
\* needle in haystack
Contains(haystack, needle) ==
    \E i \in 1..(Len(haystack) - Len(needle) + 1) :
        SubSeq(haystack, i, i + Len(needle) - 1) = needle

UpperLetters == "ABCDEFGHIJKLMNOPQRSTUVWXYZ"
LowerLetters == "abcdefghijklmnopqrstuvwxyz"

\* lower-case letter of each upper-case letter
LowerOf ==
    [c \in {SubSeq(UpperLetters, k, k) : k \in 1..Len(UpperLetters)} |->
        LET k == CHOOSE j \in 1..Len(UpperLetters) :
                        SubSeq(UpperLetters, j, j) = c
        IN SubSeq(LowerLetters, k, k)]

LowerChar(c) == IF c \in DOMAIN LowerOf THEN LowerOf[c] ELSE c

\* needle in haystack.lower(), for a lower-case needle: str.lower() maps
\* the string character by character, so the comparison is done in place.
InLower(haystack, needle) ==
    \E i \in 1..(Len(haystack) - Len(needle) + 1) :
        \A j \in 1..Len(needle) :
            LowerChar(SubSeq(haystack, i + j - 1, i + j - 1))
                = SubSeq(needle, j, j)

\* needle in str(list).lower(): the repr joins the items with "', '", and
\* none of the needles used holds a quote or a comma, so a match lies
\* inside one item.
InListLower(list, needle) ==
    \E i \in 1..Len(list) : InLower(list[i], needle)

\* str() of a float with an integral value, and of an int
FormatFloat(n) == ToString(n) \o ".0"
FormatInt(n) == ToString(n)

(***************************************************************************)
(* NeuroLogisticsSupervisor  (services/ai/supervisor.py)                   *)
(***************************************************************************)
MaxHistory == 2

config ==
    [min_profit_threshold |-> 500,
     max_detour_km |-> 30,
     max_detour_minutes |-> 45,
     min_fuel_alert_percent |-> 25,
     driver_rest_threshold_hours |-> 2,
     eta_update_threshold_minutes |-> 30]

\* NeuroLogisticsSupervisor.grok_client after __init__; run_decision_loop
\* never assigns it
grok_client == None

\* TruckState.available_capacity_tons
available_capacity_tons(truck) ==
    truck.max_capacity_tons - truck.current_load_tons

\* mission_state = None, as a record so that it compares with a mission
NoMission == [mission_id |-> None, distance_km |-> 0, progress_km |-> 0]

\* MissionState.progress_percent (the inputs divide evenly)
progress_percent(mission) ==
    IF mission.distance_km > 0
    THEN (mission.progress_km * 100) \div mission.distance_km
    ELSE 0

\* the alerts with both thresholds inclusive
AlertsAtThreshold(truck, environment) ==
    (IF truck.fuel_level_percent <= config.min_fuel_alert_percent
        THEN <<"Low fuel: " \o FormatFloat(truck.fuel_level_percent) \o "%">>
        ELSE <<>>)
    \o (IF truck.driver_hours_remaining <= config.driver_rest_threshold_hours
        THEN <<"Driver rest needed in "
                \o FormatFloat(truck.driver_hours_remaining) \o "h">>
        ELSE <<>>)
    \o (IF environment.traffic_level = "heavy"
        THEN <<"Heavy traffic ahead">> ELSE <<>>)
    \o (IF environment.is_strike_alert
        THEN <<"Strike alert in region">> ELSE <<>>)
    \o (IF environment.weather_condition \in {"storm", "fog"}
        THEN <<"Adverse weather: " \o environment.weather_condition>>
        ELSE <<>>)

\* _observe: the alerts, in the order the code appends them
Alerts(truck, environment) ==
    (IF truck.fuel_level_percent < config.min_fuel_alert_percent
        THEN <<"Low fuel: " \o FormatFloat(truck.fuel_level_percent) \o "%">>
        ELSE <<>>)
    \o (IF truck.driver_hours_remaining < config.driver_rest_threshold_hours
        THEN <<"Driver rest needed in "
                \o FormatFloat(truck.driver_hours_remaining) \o "h">>
        ELSE <<>>)
    \o (IF environment.traffic_level = "heavy"
        THEN <<"Heavy traffic ahead">> ELSE <<>>)
    \o (IF environment.is_strike_alert
        THEN <<"Strike alert in region">> ELSE <<>>)
    \o (IF environment.weather_condition \in {"storm", "fog"}
        THEN <<"Adverse weather: " \o environment.weather_condition>>
        ELSE <<>>)

\* _observe
Observe(truck, mission, environment, available_loads) ==
    [journey_state |-> "idle",
     truck |-> truck,
     mission |-> mission,
     environment |-> environment,
     available_loads |-> available_loads,
     alerts |-> Alerts(truck, environment)]

\* _reason: the text appended for a load with match_score > 80
HighMatchText(load) ==
    "High-match load available: " \o load.cargo_type
        \o " (" \o FormatInt(load.weight_tons) \o "T) - Score: "
        \o FormatInt(load.match_score)

RECURSIVE HighMatchOpportunities(_)
HighMatchOpportunities(loads) ==
    IF loads = <<>> THEN <<>>
    ELSE (IF Head(loads).match_score > 80
            THEN <<HighMatchText(Head(loads))>> ELSE <<>>)
         \o HighMatchOpportunities(Tail(loads))

\* the literal _reason compares the fuel level with
FuelConstraintPercent == 30

ReasonConstraints(observation) ==
    IF observation.truck.fuel_level_percent < FuelConstraintPercent
    THEN <<"Need to refuel within 100km">> ELSE <<>>

ReasonOpportunities(observation) ==
    (IF available_capacity_tons(observation.truck) > 5
        THEN <<"Can accept additional LTL loads">> ELSE <<>>)
    \o (IF observation.mission # NoMission
            /\ progress_percent(observation.mission) > 70
        THEN <<"Approaching destination - check return loads">>
        ELSE <<>>)
    \o HighMatchOpportunities(observation.available_loads)

ReasonRisks(observation) ==
    IF observation.environment.traffic_level = "heavy"
    THEN <<"Traffic may cause 30+ minute delay">> ELSE <<>>

ReasonObservations(observation) ==
    (IF observation.truck.fuel_level_percent < FuelConstraintPercent
        THEN <<"Fuel at "
                \o FormatFloat(observation.truck.fuel_level_percent) \o "%">>
        ELSE <<>>)
    \o (IF available_capacity_tons(observation.truck) > 5
        THEN <<"Unused capacity: "
                \o FormatFloat(available_capacity_tons(observation.truck))
                \o "T">>
        ELSE <<>>)
    \o (IF observation.mission # NoMission
        THEN <<"Mission progress: "
                \o FormatFloat(progress_percent(observation.mission)) \o "%">>
        ELSE <<>>)

\* _reason.  confidence is in hundredths.
Reason(observation) ==
    LET constraints == ReasonConstraints(observation)
        opportunities == ReasonOpportunities(observation)
    IN [observations |-> ReasonObservations(observation),
        constraints |-> constraints,
        opportunities |-> opportunities,
        risks |-> ReasonRisks(observation),
        trade_offs |->
            IF observation.environment.traffic_level = "heavy"
            THEN <<"Reroute adds 20km but saves 25 minutes">> ELSE <<>>,
        recommendation |->
            IF opportunities # <<>> /\ constraints = <<>>
            THEN "Evaluate opportunities for additional earnings"
            ELSE IF constraints # <<>>
            THEN "Address constraints first, then evaluate opportunities"
            ELSE "Continue current course",
        confidence |->
            IF opportunities # <<>> /\ constraints = <<>> THEN 85
            ELSE IF constraints # <<>> THEN 90
            ELSE 95]

\* the values _decide starts from
NoAction ==
    [decision_type |-> "no_action", action |-> None, priority |-> "low",
     expected_benefit |-> {}]

\* _decide, priority 3: the for loop over the opportunities with its breaks
RECURSIVE ScanOpportunities(_)
ScanOpportunities(opps) ==
    IF opps = <<>> THEN NoAction
    ELSE IF InLower(Head(opps), "return load")
    THEN [decision_type |-> "book_return_load",
          action |-> "Pre-book return load",
          priority |-> "medium",
          expected_benefit |-> {"earnings", "avoids_dead_miles"}]
    ELSE IF Contains(Head(opps), "LTL")
            \/ InLower(Head(opps), "capacity")
    THEN [decision_type |-> "accept_ltl_load",
          action |-> "Evaluate nearby LTL loads",
          priority |-> "low",
          expected_benefit |-> {"additional_earnings"}]
    ELSE ScanOpportunities(Tail(opps))

\* _decide with the risks branch tested before the constraints branch
ChooseRisksFirst(reasoning) ==
    IF reasoning.risks # <<>> /\ InListLower(reasoning.risks, "traffic")
    THEN [decision_type |-> "route_change",
          action |-> "Evaluate alternate route",
          priority |-> "medium",
          expected_benefit |-> {"time_saved_minutes"}]
    ELSE IF reasoning.constraints # <<>>
            /\ InListLower(reasoning.constraints, "refuel")
    THEN [decision_type |-> "fuel_stop",
          action |-> "Navigate to nearest fuel station",
          priority |-> "high",
          expected_benefit |-> {"prevents_breakdown"}]
    ELSE IF reasoning.opportunities # <<>>
    THEN ScanOpportunities(reasoning.opportunities)
    ELSE NoAction

\* _decide with the opportunities branch tested before the risks branch
ChooseOpportunitiesFirst(reasoning) ==
    IF reasoning.constraints # <<>>
    THEN IF InListLower(reasoning.constraints, "refuel")
         THEN [decision_type |-> "fuel_stop",
               action |-> "Navigate to nearest fuel station",
               priority |-> "high",
               expected_benefit |-> {"prevents_breakdown"}]
         ELSE NoAction
    ELSE IF reasoning.opportunities # <<>>
    THEN ScanOpportunities(reasoning.opportunities)
    ELSE IF reasoning.risks # <<>>
            /\ InListLower(reasoning.risks, "traffic")
    THEN [decision_type |-> "route_change",
          action |-> "Evaluate alternate route",
          priority |-> "medium",
          expected_benefit |-> {"time_saved_minutes"}]
    ELSE NoAction

\* _decide: the if / elif chain
Choose(reasoning) ==
    IF reasoning.constraints # <<>>
    THEN IF InListLower(reasoning.constraints, "refuel")
         THEN [decision_type |-> "fuel_stop",
               action |-> "Navigate to nearest fuel station",
               priority |-> "high",
               expected_benefit |-> {"prevents_breakdown"}]
         ELSE IF InListLower(reasoning.constraints, "rest")
         THEN [decision_type |-> "rest_stop",
               action |-> "Find safe rest stop",
               priority |-> "critical",
               expected_benefit |-> {"compliance", "safety"}]
         ELSE NoAction
    ELSE IF reasoning.risks # <<>>
    THEN IF InListLower(reasoning.risks, "traffic")
         THEN [decision_type |-> "route_change",
               action |-> "Evaluate alternate route",
               priority |-> "medium",
               expected_benefit |-> {"time_saved_minutes"}]
         ELSE NoAction
    ELSE IF reasoning.opportunities # <<>>
    THEN ScanOpportunities(reasoning.opportunities)
    ELSE NoAction

\* _decide
Decide(observation, reasoning) ==
    LET c == Choose(reasoning)
    IN [decision_type |-> c.decision_type,
        action_details |-> c.action,
        reasoning |-> reasoning,
        expected_benefit |-> c.expected_benefit,
        priority |-> c.priority]

\* _create_action
CreateAction(decision) ==
    [decision |-> decision, execution_status |-> "pending", result |-> None]

\* the requests the /agent/decision-loop endpoint is driven with
FuelLevels == {20, 80}
DriverHours == {1, 6}
TruckLoads == {20, 25}
TrafficLevels == {"light", "heavy"}

Trucks ==
    [vehicle_id : {"v-001"}, fuel_level_percent : FuelLevels,
     max_capacity_tons : {28}, current_load_tons : TruckLoads,
     driver_hours_remaining : DriverHours]

Missions ==
    {NoMission} \cup [mission_id : {"m-1"}, distance_km : {1000},
                 progress_km : {800}]

Environments ==
    [weather_condition : {"clear"}, traffic_level : TrafficLevels,
     is_strike_alert : {FALSE}]

LoadLists ==
    {<<>>,
     <<[cargo_type |-> "Electronics", weight_tons |-> 3, match_score |-> 90]>>}

MaxTasks == 2
TaskIds == 1..MaxTasks

\* a coroutine object of run_decision_loop: not created, scheduled on the
\* event loop, suspended at its await, or done
Task(pc, case, concurrent, observation) ==
    [pc |-> pc, case |-> case, concurrent |-> concurrent,
     observation |-> observation]

NoTask == Task("none", <<>>, FALSE, <<>>)

\* run_decision_loop.  _reason is a coroutine without an await of its own,
\* so the four steps run without yielding to the event loop.
run_decision_loop(truck, mission, environment, available_loads) ==
    LET observation == Observe(truck, mission, environment, available_loads)
        reasoning == Reason(observation)
        decision == Decide(observation, reasoning)
    IN /\ Len(observation_history) < MaxHistory
       /\ observation_history' = Append(observation_history, observation)
       /\ decision_history' = Append(decision_history, decision)
       /\ action_queue' = Append(action_queue, CreateAction(decision))
       /\ UNCHANGED loop_tasks

InitLoop ==
    /\ observation_history = <<>>
    /\ decision_history = <<>>
    /\ action_queue = <<>>
    /\ loop_tasks = [t \in TaskIds |-> NoTask]

DecisionLoopStep ==
    /\ \E truck \in Trucks, mission \in Missions,
          environment \in Environments, available_loads \in LoadLists :
           run_decision_loop(truck, mission, environment, available_loads)
    /\ UNCHANGED <<ledgerVars, ormVars, storeVars, evalVars, matchVars,
                   replyVars, planVars>>

NextLoop == DecisionLoopStep

(***************************************************************************)
(* ORM vehicles and loads (models/vehicle.py, api/v1/vehicles.py,          *)
(* api/v1/loads.py).  Every endpoint is one database transaction.          *)
(***************************************************************************)
LoadWindow == 50

VehicleRowIds == {1}
LoadRowIds == {1, 2}
OrmMissionIds == {1, 2}

\* weight_tons query parameter of add-load / remove-load: a float that the
\* endpoint does not validate
WeightArgs == {-50, 30, 80}

\* Column defaults of a vehicle row (current_load_tons default 0.0)
NewVehicleRow == [max_capacity_tons |-> 100, current_load_tons |-> 0]

\* Column defaults of a load row (status POSTED); weight_tons > 0 and
\* offered_rate > 0 by schema
NewLoadRow(l) ==
    [status |-> "posted", weight_tons |-> IF l = 1 THEN 30 ELSE 80,
     offered_rate |-> IF l = 1 THEN 400 ELSE 9000,
     matched_mission_id |-> 0, shipper_id |-> "u-1"]

\* a mission row as POST /missions creates it (status DRAFT)
NewMissionRow ==
    [status |-> "draft", driver_id |-> "d-1", operator_id |-> "o-1",
     actual_start |-> None, actual_end |-> None]

\* Mission.vehicle_id of the ORM missions
OrmMissionVehicle(m) == 1

Max(a, b) == IF a >= b THEN a ELSE b
Min(a, b) == IF a <= b THEN a ELSE b

\* Vehicle.available_capacity_tons
VehicleAvailableCapacity(vehicle) ==
    Max(0, vehicle.max_capacity_tons - vehicle.current_load_tons)

\* Vehicle.add_load: the row after the call (unchanged when it returns False)
add_load(vehicle, weight_tons) ==
    IF weight_tons <= VehicleAvailableCapacity(vehicle)
    THEN [vehicle EXCEPT !.current_load_tons = @ + weight_tons]
    ELSE vehicle

\* Vehicle.remove_load
remove_load(vehicle, weight_tons) ==
    [vehicle EXCEPT !.current_load_tons = Max(0, @ - weight_tons)]

InWindow(vehicle) ==
    /\ vehicle.current_load_tons >= -LoadWindow
    /\ vehicle.current_load_tons <= LoadWindow

\* the answer of a load-accepting entry point: the error text, and the
\* required and available tons where the answer carries them
Response(op, error, required, available) ==
    [op |-> op, error |-> error, required |-> required,
     available |-> available]

NoResponse == Response(None, None, <<>>, <<>>)

\* POST /vehicles/{vehicle_id}/add-load: a refused load is answered with
\* HTTP 400 "Insufficient capacity. Available: {available} tons"
add_load_to_vehicle(v, weight_tons) ==
    LET vehicle == vehicle_rows[v]
        added == weight_tons <= VehicleAvailableCapacity(vehicle)
    IN /\ InWindow(add_load(vehicle, weight_tons))
       /\ vehicle_rows' =
              [vehicle_rows EXCEPT ![v] = add_load(@, weight_tons)]
       /\ response' =
              IF added
              THEN Response("add_load_to_vehicle", None, <<>>, <<>>)
              ELSE Response("add_load_to_vehicle", "Insufficient capacity",
                            <<>>, <<VehicleAvailableCapacity(vehicle)>>)
       /\ UNCHANGED <<load_rows, mission_load_rows, mission_rows>>

\* POST /vehicles/{vehicle_id}/remove-load
remove_load_from_vehicle(v, weight_tons) ==
    /\ InWindow(remove_load(vehicle_rows[v], weight_tons))
    /\ vehicle_rows' =
           [vehicle_rows EXCEPT ![v] = remove_load(@, weight_tons)]
    /\ UNCHANGED <<load_rows, mission_load_rows, mission_rows>>

\* len(mission.loads)
LoadsOfMission(m) ==
    Len(SelectSeq(mission_load_rows, LAMBDA r : r.mission_id = m))

\* match_load_to_mission without the test of load.status
match_load_any_status(l, m) ==
    LET load == load_rows[l]
        v == OrmMissionVehicle(m)
        vehicle == vehicle_rows[v]
    IN IF load.weight_tons > VehicleAvailableCapacity(vehicle)
       THEN UNCHANGED ormVars
       ELSE /\ mission_load_rows' =
                   Append(mission_load_rows,
                          [mission_id |-> m, load_id |-> l,
                           pickup_sequence |-> LoadsOfMission(m) * 2 + 1,
                           delivery_sequence |-> LoadsOfMission(m) * 2 + 2])
            /\ load_rows' = [load_rows EXCEPT ![l].status = "matched",
                                              ![l].matched_mission_id = m]
            /\ vehicle_rows' =
                   [vehicle_rows EXCEPT ![v] = add_load(@, load.weight_tons)]
            /\ UNCHANGED mission_rows

\* POST /loads/{load_id}/match: the 400 answers leave every row as it was
match_load_to_mission(l, m) ==
    LET load == load_rows[l]
        v == OrmMissionVehicle(m)
        vehicle == vehicle_rows[v]
    IN IF \/ load.status # "posted"
          \/ load.weight_tons > VehicleAvailableCapacity(vehicle)
       THEN UNCHANGED ormVars
       ELSE /\ mission_load_rows' =
                   Append(mission_load_rows,
                          [mission_id |-> m, load_id |-> l,
                           pickup_sequence |-> LoadsOfMission(m) * 2 + 1,
                           delivery_sequence |-> LoadsOfMission(m) * 2 + 2])
            /\ load_rows' = [load_rows EXCEPT ![l].status = "matched",
                                              ![l].matched_mission_id = m]
            /\ vehicle_rows' =
                   [vehicle_rows EXCEPT ![v] = add_load(@, load.weight_tons)]
            /\ UNCHANGED mission_rows

InitOrm ==
    /\ vehicle_rows = [v \in VehicleRowIds |-> NewVehicleRow]
    /\ load_rows = [l \in LoadRowIds |-> NewLoadRow(l)]
    /\ mission_load_rows = <<>>
    /\ mission_rows = [m \in OrmMissionIds |-> NewMissionRow]

AddLoadStep ==
    /\ \E v \in VehicleRowIds, w \in WeightArgs : add_load_to_vehicle(v, w)
    /\ UNCHANGED <<ledgerVars, loopVars, storeVars, evalVars, matchVars,
                   planVars>>

RemoveLoadStep ==
    /\ \E v \in VehicleRowIds, w \in WeightArgs :
           remove_load_from_vehicle(v, w)
    /\ UNCHANGED <<ledgerVars, loopVars, storeVars, evalVars, matchVars,
                   replyVars, planVars>>

MatchLoadStep ==
    /\ \E l \in LoadRowIds, m \in OrmMissionIds : match_load_to_mission(l, m)
    /\ UNCHANGED <<ledgerVars, loopVars, storeVars, evalVars, matchVars,
                   replyVars, planVars>>

(***************************************************************************)
(* The market catalogue (data/mock_loads.py).                              *)
(***************************************************************************)
Load(id, type, weight_tons, pickup_city, delivery_city, offered_rate) ==
    [id |-> id, type |-> type, weight_tons |-> weight_tons,
     pickup_city |-> pickup_city, delivery_city |-> delivery_city,
     offered_rate |-> offered_rate]

AVAILABLE_LOADS ==
    << Load("ltl-001", "ltl", 25, "Mumbai", "Pune", 8000),
       Load("ltl-002", "ltl", 30, "Delhi", "Jaipur", 6500),
       Load("ltl-003", "ltl", 15, "Bangalore", "Chennai", 12000),
       Load("ltl-004", "ltl", 40, "Chennai", "Hyderabad", 15000),
       Load("ltl-005", "ltl", 8, "Ahmedabad", "Mumbai", 9000),
       Load("ftl-001", "backhaul", 220, "Mumbai", "Delhi", 65000),
       Load("ftl-002", "backhaul", 180, "Mumbai", "Ahmedabad", 28000),
       Load("ftl-003", "backhaul", 200, "Pune", "Chennai", 55000),
       Load("ftl-004", "backhaul", 80, "Bangalore", "Hyderabad", 25000),
       Load("ftl-005", "backhaul", 240, "Ahmedabad", "Mumbai", 22000),
       Load("ftl-006", "backhaul", 250, "Hyderabad", "Chennai", 32000),
       Load("ftl-007", "backhaul", 200, "Kolkata", "Delhi", 75000) >>

\* upper-case letter of each lower-case letter
UpperOf ==
    [c \in {SubSeq(LowerLetters, k, k) : k \in 1..Len(LowerLetters)} |->
        LET k == CHOOSE j \in 1..Len(LowerLetters) :
                        SubSeq(LowerLetters, j, j) = c
        IN SubSeq(UpperLetters, k, k)]

UpperChar(c) == IF c \in DOMAIN UpperOf THEN UpperOf[c] ELSE c

IsLetter(c) == c \in DOMAIN UpperOf \/ c \in DOMAIN LowerOf

\* str.strip()
RECURSIVE Strip(_)
Strip(s) ==
    IF s = "" THEN s
    ELSE IF SubSeq(s, 1, 1) = " " THEN Strip(SubSeq(s, 2, Len(s)))
    ELSE IF SubSeq(s, Len(s), Len(s)) = " "
         THEN Strip(SubSeq(s, 1, Len(s) - 1))
    ELSE s

\* str.title(): a letter that follows a letter is lowered, any other letter
\* is raised
RECURSIVE TitleFrom(_, _)
TitleFrom(s, i) ==
    IF i > Len(s) THEN ""
    ELSE LET c == SubSeq(s, i, i)
             follows == i > 1 /\ IsLetter(SubSeq(s, i - 1, i - 1))
         IN (IF follows THEN LowerChar(c) ELSE UpperChar(c))
                \o TitleFrom(s, i + 1)

Title(s) == TitleFrom(s, 1)

\* a.lower() == b.lower()
LowerEq(a, b) ==
    /\ Len(a) = Len(b)
    /\ \A i \in 1..Len(a) :
           LowerChar(SubSeq(a, i, i)) = LowerChar(SubSeq(b, i, i))

\* Python truth value of an Optional[float] argument; None is <<>> and a
\* number x is <<x>>
Truthy(optional) == optional # <<>> /\ optional[1] # 0

\* random.uniform(0.85, 1.15), in percent
RateVariations == {85, 115}

\* random.randint(5, 30); even, so that detour_km / 40 * 500 is whole
Detours == {6, 30}

\* the draws made while an evaluation looks for nearby opportunities
NearbyDraws == {<<115, 6>>}

\* get_available_loads without the route filters, which no caller passes;
\* variation is the price fluctuation drawn for the call
get_available_loads(max_weight, load_type, variation) ==
    LET typed == IF load_type # None /\ load_type # ""
                 THEN SelectSeq(AVAILABLE_LOADS,
                                LAMBDA l : l.type = load_type)
                 ELSE AVAILABLE_LOADS
        fitting == IF Truthy(max_weight)
                   THEN SelectSeq(typed,
                                  LAMBDA l : l.weight_tons <= max_weight[1])
                   ELSE typed
    IN [i \in 1..Len(fitting) |->
           [id |-> fitting[i].id, type |-> fitting[i].type,
            weight_tons |-> fitting[i].weight_tons,
            pickup_city |-> fitting[i].pickup_city,
            delivery_city |-> fitting[i].delivery_city,
            offered_rate |-> fitting[i].offered_rate,
            current_rate |-> (fitting[i].offered_rate * variation) \div 100]]

\* The loop at the end of get_available_loads writes current_rate into the
\* dicts of the module-level AVAILABLE_LOADS (list.copy() is shallow): the
\* catalogue after a call.  <<>> is a load that has no current_rate key.
PricedCatalogue(max_weight, load_type, variation) ==
    LET loads == get_available_loads(max_weight, load_type, variation)
    IN [id \in DOMAIN catalogue |->
           IF \E i \in 1..Len(loads) : loads[i].id = id
           THEN <<(CHOOSE l \in {loads[i] : i \in 1..Len(loads)} :
                       l.id = id).current_rate>>
           ELSE catalogue[id]]

\* the options with the partial matches listed first
get_backhaul_loads_partial_first(destination, home_base) ==
    LET dest == Title(Strip(destination))
        home == Title(Strip(home_base))
        backhaul == SelectSeq(AVAILABLE_LOADS, LAMBDA l : l.type = "backhaul")
        direct == SelectSeq(backhaul,
                            LAMBDA l : /\ l.pickup_city = dest
                                       /\ l.delivery_city = home)
        partial == SelectSeq(backhaul,
                             LAMBDA l : /\ l.pickup_city = dest
                                        /\ l.delivery_city # home)
        Option(l, match_type, match_score) ==
            [id |-> l.id, type |-> l.type, weight_tons |-> l.weight_tons,
             pickup_city |-> l.pickup_city, delivery_city |-> l.delivery_city,
             offered_rate |-> l.offered_rate, match_type |-> match_type,
             match_score |-> match_score]
    IN [i \in 1..Len(partial) |-> Option(partial[i], "partial", 70)]
           \o [i \in 1..Len(direct) |-> Option(direct[i], "direct", 95)]

\* get_backhaul_loads: the direct matches (score 95) sort before the
\* partial ones (score 70), each group in catalogue order (stable sort)
get_backhaul_loads(destination, home_base) ==
    LET dest == Title(Strip(destination))
        home == Title(Strip(home_base))
        backhaul == SelectSeq(AVAILABLE_LOADS, LAMBDA l : l.type = "backhaul")
        direct == SelectSeq(backhaul,
                            LAMBDA l : /\ l.pickup_city = dest
                                       /\ l.delivery_city = home)
        partial == SelectSeq(backhaul,
                             LAMBDA l : /\ l.pickup_city = dest
                                        /\ l.delivery_city # home)
        Option(l, match_type, match_score) ==
            [id |-> l.id, type |-> l.type, weight_tons |-> l.weight_tons,
             pickup_city |-> l.pickup_city, delivery_city |-> l.delivery_city,
             offered_rate |-> l.offered_rate, match_type |-> match_type,
             match_score |-> match_score]
    IN [i \in 1..Len(direct) |-> Option(direct[i], "direct", 95)]
           \o [i \in 1..Len(partial) |-> Option(partial[i], "partial", 70)]

\* get_ltl_loads_on_route; draw is the price variation and the detour drawn
\* for the call
get_ltl_loads_on_route(origin, destination, available_capacity, draw) ==
    LET variation == draw[1]
        detour_km == draw[2]
        from == Title(Strip(origin))
        to == Title(Strip(destination))
        ltl_loads == get_available_loads(<<available_capacity>>, "ltl",
                                         variation)
        on_route == SelectSeq(ltl_loads,
                              LAMBDA l : \/ l.pickup_city \in {from, to}
                                         \/ l.delivery_city \in {from, to})
    IN [i \in 1..Len(on_route) |->
           [id |-> on_route[i].id, weight_tons |-> on_route[i].weight_tons,
            offered_rate |-> on_route[i].offered_rate,
            current_rate |-> on_route[i].current_rate,
            detour_km |-> detour_km]]

(***************************************************************************)
(* The in-memory DataStore (data/store.py) and the modules that write it.  *)
(***************************************************************************)
MaxMissions == 2
MaxPooled == 2
MaxTime == 3

VehicleIds == {"v-001", "v-002"}

\* DataStore._seed_data
SeedVehicles ==
    [v \in VehicleIds |->
        [capacity_tons |-> IF v = "v-001" THEN 250 ELSE 200,
         current_load_tons |-> 0, status |-> "available",
         current_mission_id |-> 0]]

\* Plans handed to MissionPlanner.start_mission.  PlanMissionRequest takes a
\* cargo weight from 0.1 t to 30 t; expected_hours is
\* eta_range.expected.hours in tenths of an hour.
Plans ==
    { [origin |-> "Pune", destination |-> "Mumbai", weight_tons |-> 180,
       expected_hours |-> 40],
      [origin |-> "Mumbai", destination |-> "Pune", weight_tons |-> 300,
       expected_hours |-> 40] }

\* DataStore.create_mission followed by DataStore.start_mission
NewMission(plan, vehicle_id) ==
    [status |-> "in_progress", started_at |-> clock,
     origin |-> plan.origin, destination |-> plan.destination,
     cargo |-> [weight_tons |-> plan.weight_tons,
                total_weight_tons |-> plan.weight_tons],
     expected_hours |-> plan.expected_hours, vehicle_id |-> vehicle_id,
     progress_percent |-> 0, current_location |-> plan.origin,
     pooled_loads |-> <<>>, last_evaluation |-> 0,
     booked_backhaul |-> <<>>]

\* DataStore.update_vehicle
update_vehicle(vehicle_id, updates) ==
    [vehicles EXCEPT ![vehicle_id] =
        [k \in DOMAIN @ |-> IF k \in DOMAIN updates THEN updates[k] ELSE @[k]]]

\* MissionPlanner.start_mission
start_mission(plan, vehicle_id) ==
    /\ Len(missions) < MaxMissions
    /\ missions' = Append(missions, NewMission(plan, vehicle_id))
    /\ decision_logs' = Append(decision_logs, <<>>)
    /\ vehicles' = update_vehicle(vehicle_id,
           [status |-> "on_mission", current_mission_id |-> Len(missions) + 1,
            current_load_tons |-> plan.weight_tons])

MissionIds == 1..Len(missions)

\* load ids a client may send to accept_ltl_load
RequestedLoadIds == {"ltl-001", "ltl-005", "ftl-001"}

LoadsWithId(loads, load_id) == SelectSeq(loads, LAMBDA l : l.id = load_id)

\* mission ids a client may send; an id past the last mission is unknown
RequestedMissionIds == 1..MaxMissions

\* CapacityManager.accept_ltl_load: the error answers leave the store as it
\* was; the success path writes the mission and the vehicle and does not
\* call log_decision
accept_ltl_load(mission_id, load_id, variation) ==
    IF mission_id \notin MissionIds
    THEN /\ response' =
                Response("accept_ltl_load", "Mission not found", <<>>, <<>>)
         /\ UNCHANGED <<missions, vehicles, decision_logs, catalogue>>
    ELSE
    LET mission == missions[mission_id]
        found == LoadsWithId(get_available_loads(<<>>, "ltl", variation),
                             load_id)
        vehicle == vehicles[mission.vehicle_id]
        total_capacity == vehicle.capacity_tons
        current_load == mission.cargo.weight_tons
        available == total_capacity - current_load
    IN /\ catalogue' = PricedCatalogue(<<>>, "ltl", variation)
       /\ IF found = <<>>
          THEN /\ response' =
                      Response("accept_ltl_load",
                               "Load " \o load_id \o " not found", <<>>, <<>>)
               /\ UNCHANGED <<missions, vehicles, decision_logs>>
          ELSE IF found[1].weight_tons > available
          THEN /\ response' =
                      Response("accept_ltl_load", "Insufficient capacity",
                               <<found[1].weight_tons>>, <<available>>)
               /\ UNCHANGED <<missions, vehicles, decision_logs>>
          ELSE LET load == found[1]
                   new_total_weight == current_load + load.weight_tons
               IN /\ Len(mission.pooled_loads) < MaxPooled
                  /\ missions' =
                         [missions EXCEPT
                             ![mission_id].pooled_loads =
                                 Append(@, [load_id |-> load_id,
                                            weight_tons |-> load.weight_tons,
                                            rate |-> load.current_rate]),
                             ![mission_id].cargo.total_weight_tons =
                                 new_total_weight]
                  /\ vehicles' = update_vehicle(mission.vehicle_id,
                         [current_load_tons |-> new_total_weight])
                  /\ response' =
                         Response("accept_ltl_load", None, <<>>, <<>>)
                  /\ UNCHANGED decision_logs

\* GET /demo/scenario: with no mission in the store, the demo mission is
\* created, started and moved to Ahmedabad; the vehicle is not touched
get_demo_scenario ==
    /\ missions = <<>>
    /\ missions' =
           <<[NewMission([origin |-> "Mumbai", destination |-> "Delhi",
                          weight_tons |-> 120, expected_hours |-> 276],
                         "v-001")
                 EXCEPT !.progress_percent = 350,
                        !.current_location = "Ahmedabad"]>>
    /\ decision_logs' = <<<<>>>>
    /\ UNCHANGED vehicles

InitStore ==
    /\ missions = <<>>
    /\ vehicles = SeedVehicles
    /\ decision_logs = <<>>

StartMissionStep ==
    /\ \E plan \in Plans, vehicle_id \in VehicleIds :
           start_mission(plan, vehicle_id)
    /\ UNCHANGED <<ledgerVars, loopVars, ormVars, evalVars, matchVars,
                   replyVars, planVars>>

DemoScenarioStep ==
    /\ get_demo_scenario
    /\ UNCHANGED <<ledgerVars, loopVars, ormVars, evalVars, matchVars,
                   replyVars, planVars>>

AcceptLtlLoadStep ==
    /\ \E mission_id \in RequestedMissionIds, load_id \in RequestedLoadIds :
           accept_ltl_load(mission_id, load_id, 115)
    /\ UNCHANGED <<ledgerVars, loopVars, ormVars, evalVars, matches,
                   planVars>>

NextFleet ==
    \/ AddLoadStep
    \/ RemoveLoadStep
    \/ MatchLoadStep
    \/ StartMissionStep
    \/ AcceptLtlLoadStep

(***************************************************************************)
(* DecisionEngine.evaluate_situation (modules/decision_engine.py).  The    *)
(* coroutine runs to its one await, the advisory call, and from the reply  *)
(* to its return without yielding the event loop; other coroutines and the *)
(* passage of time fall in between.                                        *)
(***************************************************************************)
MaxEvaluations == 2

EvaluationIds == 1..MaxEvaluations

\* current_location of the request
Locations == {"Ahmedabad", "delhi"}

\* current_conditions of the request
Conditions ==
    { [traffic |-> "normal", weather |-> "clear",
       driver_fatigue_level |-> "fresh"],
      [traffic |-> "severe", weather |-> "fog",
       driver_fatigue_level |-> "fresh"] }

\* What the advisory client hands back: the parsed reply, or the reply that
\* did not parse ({"raw_response": ...}), which has neither field
RawResponse == [raw_response |-> "unavailable"]

AiEvaluations ==
    { [recommended_action |-> "REROUTE", confidence |-> 85], RawResponse }

\* round(n / d, 0) for n, d > 0
Round(n, d) == (2 * n + d) \div (2 * d)

\* DecisionEngine._calculate_progress, in tenths of a percent
CalculateProgress(mission, current_location) ==
    IF LowerEq(current_location, mission.destination) THEN 1000
    ELSE IF LowerEq(current_location, mission.origin) THEN 0
    ELSE IF mission.started_at # 0
         THEN Min(950, Round((clock - mission.started_at) * 10000,
                             mission.expected_hours))
    ELSE mission.progress_percent

\* DecisionEngine._calculate_elapsed_time
CalculateElapsedTime(mission) ==
    IF mission.started_at = 0 THEN None
    ELSE FormatFloat(clock - mission.started_at) \o " hours"

\* DecisionEngine._find_nearby_opportunities
FindNearbyOpportunities(current_location, destination, current_weight, draw) ==
    LET available_capacity == 250 - current_weight
        loads == get_ltl_loads_on_route(current_location, destination,
                     available_capacity, draw)
    IN IF available_capacity < 10 THEN <<>>
       ELSE SubSeq(loads, 1, Min(5, Len(loads)))

\* DecisionEngine._make_decision
MakeDecision(observation, ai_evaluation) ==
    LET action == IF "recommended_action" \in DOMAIN ai_evaluation
                  THEN ai_evaluation.recommended_action ELSE "CONTINUE"
        opportunities == observation.nearby_opportunities
        high_value_opps ==
            SelectSeq(opportunities, LAMBDA o : o.current_rate > 5000)
        conditions == observation.conditions
        severe_conditions ==
            \/ conditions.traffic = "severe"
            \/ conditions.weather \in {"heavy_rain", "fog"}
            \/ conditions.driver_fatigue_level = "tired"
    IN [action |-> action,
        confidence |-> IF "confidence" \in DOMAIN ai_evaluation
                       THEN ai_evaluation.confidence ELSE 70,
        reasons |->
            << CASE action = "REROUTE" ->
                      "Traffic or road conditions suggest alternate route"
                 [] action = "STOP" -> "Rest recommended for safety"
                 [] action = "ALERT" -> "Situation requires driver attention"
                 [] OTHER -> "Conditions normal, continue as planned" >>,
        alerts |->
            (IF severe_conditions THEN <<"warning">> ELSE <<>>)
                \o (IF high_value_opps # <<>> THEN <<"opportunity">>
                    ELSE <<>>),
        opportunities_found |-> Len(opportunities)]

\* a log that puts the newest entry first
log_decision_newest_first(mission_id, decision) ==
    [decision_logs EXCEPT ![mission_id] = <<decision>> \o @]

\* DataStore.log_decision: the log of every mission after the call
log_decision(mission_id, decision) ==
    [decision_logs EXCEPT ![mission_id] = Append(@, decision)]

\* DataStore.update_mission with the three fields evaluate_situation writes
update_mission(mission_id, progress, current_location) ==
    [missions EXCEPT ![mission_id].progress_percent = progress,
                     ![mission_id].current_location = current_location,
                     ![mission_id].last_evaluation = clock]

\* A coroutine that has not been called
Idle ==
    [pc |-> "idle", mission_id |-> 0, observed_at |-> 0, entry |-> 0,
     observation |-> [mission_id |-> 0]]

\* evaluate_situation up to the await: the mission is read, progress and
\* the observation are computed from it and from the clock
BeginEvaluate(e, mission_id, current_location, current_conditions, draw) ==
    LET mission == missions[mission_id]
        progress == CalculateProgress(mission, current_location)
        observation ==
            [mission_id |-> mission_id, origin |-> mission.origin,
             destination |-> mission.destination,
             current_location |-> current_location,
             progress_percent |-> progress,
             elapsed_time |-> CalculateElapsedTime(mission),
             conditions |-> current_conditions,
             nearby_opportunities |->
                 FindNearbyOpportunities(current_location,
                     mission.destination, mission.cargo.weight_tons, draw)]
    IN /\ evaluations[e].pc = "idle"
       /\ evaluations' =
              [evaluations EXCEPT ![e] =
                  [pc |-> "awaiting", mission_id |-> mission_id,
                   observed_at |-> clock, entry |-> 0,
                   observation |-> observation]]
       /\ catalogue' =
              IF 250 - mission.cargo.weight_tons < 10 THEN catalogue
              ELSE PricedCatalogue(<<250 - mission.cargo.weight_tons>>,
                                   "ltl", draw[1])
       /\ UNCHANGED <<clock, missions, vehicles, decision_logs>>

\* evaluate_situation from the reply to the return: the decision is logged
\* and the mission updated with the progress computed before the await
FinishEvaluate(e, ai_evaluation) ==
    LET mission_id == evaluations[e].mission_id
        observation == evaluations[e].observation
        decision == MakeDecision(observation, ai_evaluation)
    IN /\ evaluations[e].pc = "awaiting"
       /\ decision_logs' =
              log_decision(mission_id,
                  [timestamp |-> clock, observation |-> observation,
                   ai_evaluation |-> ai_evaluation, decision |-> decision])
       /\ missions' = update_mission(mission_id, observation.progress_percent,
                                     observation.current_location)
       /\ evaluations' =
              [evaluations EXCEPT
                  ![e].pc = "done",
                  ![e].entry = Len(decision_logs[mission_id]) + 1]
       /\ UNCHANGED <<clock, vehicles>>

\* time passes
Tick ==
    /\ clock < MaxTime
    /\ clock' = clock + 1
    /\ UNCHANGED <<evaluations, missions, vehicles, decision_logs>>

InitEval ==
    /\ clock = 1
    /\ evaluations = [e \in EvaluationIds |-> Idle]

BeginEvaluateStep ==
    /\ \E e \in EvaluationIds, mission_id \in MissionIds,
          current_location \in Locations,
          current_conditions \in Conditions, draw \in NearbyDraws :
           BeginEvaluate(e, mission_id, current_location,
                         current_conditions, draw)
    /\ UNCHANGED <<ledgerVars, loopVars, ormVars, matches, replyVars,
                   planVars>>

FinishEvaluateStep ==
    /\ \E e \in EvaluationIds, ai_evaluation \in AiEvaluations :
           FinishEvaluate(e, ai_evaluation)
    /\ UNCHANGED <<ledgerVars, loopVars, ormVars, matchVars, replyVars,
                   planVars>>

TickStep ==
    /\ Tick
    /\ UNCHANGED <<ledgerVars, loopVars, ormVars, matchVars, replyVars,
                   planVars>>

NextEval ==
    \/ DemoScenarioStep
    \/ BeginEvaluateStep
    \/ FinishEvaluateStep
    \/ TickStep

(***************************************************************************)
(* The decision histories: DataStore.decision_logs and the supervisor's    *)
(* decision_history, with every operation that writes to a mission or to   *)
(* its log.                                                                *)
(***************************************************************************)
\* entries a mission's log may hold before the callers below stop
MaxLog == 2

\* Python round(n / d) for d > 0: to the nearest integer, a half to the even
\* neighbour
RoundHalfEven(n, d) ==
    LET q == n \div d
        r == n % d
    IN IF 2 * r < d THEN q
       ELSE IF 2 * r > d THEN q + 1
       ELSE IF q % 2 = 0 THEN q ELSE q + 1

\* DecisionEngine._calculate_cost_benefit.  fuel_cost is detour_km / 3.5 * 90
\* = 180 * detour_km / 7 and time_cost is detour_km / 40 * 150
\* = 15 * detour_km / 4, so total_cost is 825 * detour_km / 28; each field
\* of the result is rounded on its own
CalculateCostBenefit(opportunity) ==
    LET detour_km == IF "detour_km" \in DOMAIN opportunity
                     THEN opportunity.detour_km ELSE 20
        revenue == IF "offered_rate" \in DOMAIN opportunity
                   THEN opportunity.offered_rate ELSE 0
        net_benefit_28 == 28 * revenue - 825 * detour_km
    IN [detour_km |-> detour_km,
        fuel_cost |-> RoundHalfEven(180 * detour_km, 7),
        time_cost |-> RoundHalfEven(15 * detour_km, 4),
        total_cost |-> RoundHalfEven(825 * detour_km, 28),
        revenue |-> revenue,
        net_benefit |-> RoundHalfEven(net_benefit_28, 28),
        worth_taking |-> net_benefit_28 > 500 * 28]

\* DecisionEngine._combine_recommendations
CombineRecommendations(ai_decision, cost_benefit) ==
    LET ai_recommends == /\ "recommendation" \in DOMAIN ai_decision
                         /\ ai_decision.recommendation = "ACCEPT"
        calc_recommends == cost_benefit.worth_taking
    IN [recommendation |->
            IF ai_recommends /\ calc_recommends THEN "STRONGLY_ACCEPT"
            ELSE IF ai_recommends \/ calc_recommends THEN "ACCEPT"
            ELSE "REJECT",
        confidence |->
            IF ai_recommends /\ calc_recommends THEN 90
            ELSE IF ai_recommends \/ calc_recommends THEN 70
            ELSE 80,
        ai_vote |-> ai_recommends, calc_vote |-> calc_recommends]

\* DecisionEngine.evaluate_opportunity.  The part before the await only reads
\* the mission; the entry that is logged is made of the opportunity, the
\* reply and the cost-benefit computed after the await, so the call is one
\* step taken when the reply arrives
evaluate_opportunity(mission_id, opportunity, ai_decision) ==
    IF mission_id \notin MissionIds
    THEN UNCHANGED <<missions, vehicles, decision_logs>>
    ELSE LET cost_benefit == CalculateCostBenefit(opportunity)
             result ==
                 [mission_id |-> mission_id, opportunity |-> opportunity,
                  ai_recommendation |-> ai_decision,
                  calculated_analysis |-> cost_benefit,
                  final_recommendation |->
                      CombineRecommendations(ai_decision, cost_benefit),
                  timestamp |-> clock]
         IN /\ Len(decision_logs[mission_id]) < MaxLog
            /\ decision_logs' =
                   log_decision(mission_id,
                       [timestamp |-> clock,
                        type |-> "opportunity_evaluation",
                        opportunity |-> opportunity, result |-> result])
            /\ UNCHANGED <<missions, vehicles>>

\* load ids a client may send to book_backhaul and, in the history machine,
\* to accept_ltl_load: a backhaul load and an LTL load
RequestedBackhaulIds == {"ftl-001", "ltl-001"}

\* CapacityManager.book_backhaul: the mission gets the booked load and the
\* booking is logged; the error answers leave the store as it was
book_backhaul(mission_id, backhaul_load_id, variation) ==
    IF mission_id \notin MissionIds
    THEN /\ response' =
                Response("book_backhaul", "Mission not found", <<>>, <<>>)
         /\ UNCHANGED <<missions, vehicles, decision_logs, catalogue>>
    ELSE
    LET found == LoadsWithId(get_available_loads(<<>>, "backhaul", variation),
                             backhaul_load_id)
    IN /\ catalogue' = PricedCatalogue(<<>>, "backhaul", variation)
       /\ IF found = <<>>
          THEN /\ response' =
                      Response("book_backhaul",
                               "Backhaul load " \o backhaul_load_id
                                   \o " not found", <<>>, <<>>)
               /\ UNCHANGED <<missions, vehicles, decision_logs>>
          ELSE LET load == found[1]
               IN /\ Len(decision_logs[mission_id]) < MaxLog
                  /\ missions' =
                         [missions EXCEPT ![mission_id].booked_backhaul =
                             <<[load_id |-> backhaul_load_id,
                                weight_tons |-> load.weight_tons,
                                rate |-> load.current_rate,
                                booked_at |-> clock]>>]
                  /\ decision_logs' =
                         log_decision(mission_id,
                             [timestamp |-> clock, type |-> "backhaul_booked",
                              load_id |-> backhaul_load_id,
                              revenue |-> load.current_rate])
                  /\ response' = Response("book_backhaul", None, <<>>, <<>>)
                  /\ UNCHANGED vehicles

\* PATCH /mission/{mission_id}/status: DataStore.complete_mission for
\* "completed", DataStore.update_mission with the status otherwise; 404 for
\* an unknown mission
update_mission_status(mission_id, status) ==
    IF mission_id \notin MissionIds
    THEN UNCHANGED <<missions, vehicles, decision_logs>>
    ELSE /\ missions' = [missions EXCEPT ![mission_id].status = status]
         /\ UNCHANGED <<vehicles, decision_logs>>

\* The history machine drives every writer of the demo mission with a few
\* requests of each kind, so that the logs stay small enough to enumerate.
SituationStep ==
    /\ \E mission_id \in MissionIds, draw \in NearbyDraws :
           BeginEvaluate(1, mission_id, "Ahmedabad",
                         [traffic |-> "normal", weather |-> "clear",
                          driver_fatigue_level |-> "fresh"], draw)
    /\ UNCHANGED <<ledgerVars, loopVars, ormVars, matches, replyVars,
                   planVars>>

EvaluateOpportunityStep ==
    /\ \E mission_id \in RequestedMissionIds :
           evaluate_opportunity(mission_id,
               [id |-> "opp-1", detour_km |-> 6, offered_rate |-> 1000],
               RawResponse)
    /\ UNCHANGED <<ledgerVars, loopVars, ormVars, evalVars, matchVars,
                   replyVars, planVars>>

BookBackhaulStep ==
    /\ \E mission_id \in RequestedMissionIds,
          backhaul_load_id \in RequestedBackhaulIds :
           book_backhaul(mission_id, backhaul_load_id, 115)
    /\ UNCHANGED <<ledgerVars, loopVars, ormVars, evalVars, matches,
                   planVars>>

PoolLoadStep ==
    /\ \E mission_id \in MissionIds, load_id \in RequestedBackhaulIds :
           accept_ltl_load(mission_id, load_id, 115)
    /\ UNCHANGED <<ledgerVars, loopVars, ormVars, evalVars, matches,
                   planVars>>

UpdateMissionStatusStep ==
    /\ \E mission_id \in RequestedMissionIds :
           update_mission_status(mission_id, "delayed")
    /\ UNCHANGED <<ledgerVars, loopVars, ormVars, evalVars, matchVars,
                   replyVars, planVars>>

\* the /agent/decision-loop endpoint driven for one truck on a clear day
RoutineLoopStep ==
    /\ run_decision_loop(
           [vehicle_id |-> "v-001", fuel_level_percent |-> 80,
            max_capacity_tons |-> 28, current_load_tons |-> 25,
            driver_hours_remaining |-> 6],
           NoMission,
           [weather_condition |-> "clear", traffic_level |-> "light",
            is_strike_alert |-> FALSE],
           <<>>)
    /\ UNCHANGED <<ledgerVars, ormVars, storeVars, evalVars, matchVars,
                   replyVars, planVars>>

NextHistory ==
    \/ DemoScenarioStep
    \/ SituationStep
    \/ FinishEvaluateStep
    \/ EvaluateOpportunityStep
    \/ BookBackhaulStep
    \/ PoolLoadStep
    \/ UpdateMissionStatusStep
    \/ RoutineLoopStep

(***************************************************************************)
(* The advisory collaborator behind POST /agent/decision-loop (Grok) and   *)
(* behind DecisionEngine.evaluate_situation (Gemini, whose failed reply is *)
(* one of AiEvaluations).                                                  *)
(***************************************************************************)
\* settings.GROK_API_KEY: not configured, or configured
GrokApiKeys == {"", "xai-key"}

\* get_grok_client / GrokClient.__init__: the exception text, None when the
\* client is built
GrokClientError(api_key) ==
    IF api_key = "" THEN "GROK_API_KEY not configured" ELSE None

\* POST /agent/decision-loop: supervisor.initialize() builds the client
\* before the loop runs, and any exception is answered with HTTP 500
decision_loop_endpoint(api_key, truck, environment) ==
    IF GrokClientError(api_key) # None
    THEN /\ response' =
                Response("run_decision_loop",
                         "Decision loop failed: " \o GrokClientError(api_key),
                         <<>>, <<>>)
         /\ UNCHANGED loopVars
    ELSE /\ run_decision_loop(truck, NoMission, environment, <<>>)
         /\ response' = Response("run_decision_loop", None, <<>>, <<>>)

DecisionLoopEndpointStep ==
    /\ \E api_key \in GrokApiKeys, truck \in Trucks,
          environment \in Environments :
           decision_loop_endpoint(api_key, truck, environment)
    /\ UNCHANGED <<ledgerVars, ormVars, storeVars, evalVars, matchVars,
                   planVars>>

NextAdvisory ==
    \/ DemoScenarioStep
    \/ SituationStep
    \/ FinishEvaluateStep
    \/ DecisionLoopEndpointStep

(***************************************************************************)
(* Routes and fares (data/mock_routes.py, MissionPlanner,                  *)
(* services/maps/mock_maps.py).  Weights are whole tons here, distances    *)
(* kilometres, fares rupees; calculate_fare totals are paise.              *)
(***************************************************************************)
\* quotes kept in the state
MaxQuotes == 2

\* the entries of INDIAN_ROUTES that the requests below reach; checkpoints
\* is the length of the list
INDIAN_ROUTES ==
    << [origin |-> "Delhi", destination |-> "Mumbai", distance_km |-> 1420,
        toll_cost |-> 2800, checkpoints |-> 3, risk_level |-> "medium"],
       [origin |-> "Mumbai", destination |-> "Pune", distance_km |-> 150,
        toll_cost |-> 350, checkpoints |-> 0, risk_level |-> "low"] >>

\* key in INDIAN_ROUTES
RoutesBetween(origin, destination) ==
    SelectSeq(INDIAN_ROUTES, LAMBDA r : /\ r.origin = origin
                                        /\ r.destination = destination)

\* the ends of random.randint(200, 1500) in _estimate_route
EstimatedDistances == {200, 1500}

\* get_route_info: the table entry, read in either direction, for a known
\* pair; _estimate_route, with the distance it draws, for any other pair
get_route_info(origin, destination, estimated_distance) ==
    LET o == Title(Strip(origin))
        d == Title(Strip(destination))
        known == RoutesBetween(o, d) \o RoutesBetween(d, o)
    IN IF known # <<>>
       THEN [known[1] EXCEPT !.origin = o, !.destination = d]
       ELSE [origin |-> o, destination |-> d,
             distance_km |-> estimated_distance,
             toll_cost |-> estimated_distance * 2, checkpoints |-> 1,
             risk_level |-> "unknown"]

\* route.get("is_estimated")
IsEstimated(route) == route.risk_level = "unknown"

\* cargo_factors and risk_factors of MissionPlanner._calculate_dynamic_fare,
\* in hundredths
CargoFactors ==
    [hazmat |-> 25, chemicals |-> 20, perishables |-> 15, fragile |-> 12,
     electronics |-> 10, pharmaceuticals |-> 12, general |-> 0, steel |-> 5,
     cement |-> 3]

RiskFactors == [low |-> 0, medium |-> 5, high |-> 12, unknown |-> 8]

\* MissionPlanner._calculate_dynamic_fare.  total_fare is
\* distance * 55 * effort_multiplier + toll_cost + distance / 3.5 * 90 * 0.3,
\* computed here over the denominator 700; per_km_rate divides by distance
CalculateDynamicFare(route, cargo_type, weight_tons) ==
    LET distance == route.distance_km
        cargo == {k \in DOMAIN CargoFactors : LowerEq(cargo_type, k)}
        effort_multiplier ==
            100 + (IF weight_tons > 20 THEN 15
                   ELSE IF weight_tons > 15 THEN 10
                   ELSE IF weight_tons > 10 THEN 5 ELSE 0)
                + route.checkpoints * 3
                + (IF cargo = {} THEN 5
                   ELSE CargoFactors[CHOOSE k \in cargo : TRUE])
                + RiskFactors[route.risk_level]
        total_700 == distance * 55 * effort_multiplier * 7
                         + 700 * route.toll_cost + distance * 5400
    IN IF distance = 0 THEN [error |-> "ZeroDivisionError"]
       ELSE [error |-> None, base_fare |-> distance * 55,
             effort_multiplier |-> effort_multiplier,
             toll_cost |-> route.toll_cost,
             total_fare |-> RoundHalfEven(total_700, 700)]

\* MissionPlanner.plan_mission, as answered by POST /mission/plan: the route,
\* the fare and the first three return loads
plan_mission(origin, destination, cargo_type, weight_tons, estimate) ==
    LET route == get_route_info(origin, destination, estimate)
        fare == CalculateDynamicFare(route, cargo_type, weight_tons)
        return_loads == get_backhaul_loads(destination, origin)
    IN [op |-> "plan_mission", error |-> fare.error,
        origin |-> origin, destination |-> destination,
        cargo_type |-> cargo_type, weight_tons |-> weight_tons,
        distance_km |-> route.distance_km,
        checkpoints |-> route.checkpoints,
        is_estimated |-> IsEstimated(route),
        total |-> IF fare.error = None THEN fare.total_fare ELSE 0,
        return_load_options |->
            SubSeq(return_loads, 1, Min(3, Len(return_loads)))]

\* MockMapsService.calculate_fare for an "hcv".  base_fare is distance * 25
\* * weight_factor * distance_factor and total is base_fare * 1.17 +
\* toll_cost, rounded to paise; the two factors are carried in twentieths,
\* so base_fare is distance * weight_factor * distance_factor / 16 rupees;
\* rate_per_km divides by distance
calculate_fare(distance_km, weight_tons, toll_cost) ==
    LET weight_factor == IF weight_tons > 30 THEN 28
                         ELSE IF weight_tons > 20 THEN 25
                         ELSE IF weight_tons > 10 THEN 22 ELSE 20
        distance_factor == IF distance_km > 1000 THEN 18
                           ELSE IF distance_km > 500 THEN 19 ELSE 20
        base_fare_16 == distance_km * weight_factor * distance_factor
    IN IF distance_km = 0 THEN [error |-> "ZeroDivisionError"]
       ELSE [error |-> None,
             total |-> RoundHalfEven(base_fare_16 * 117
                                         + toll_cost * 1600, 16)]

\* POST /maps/fare: FareRequest refuses distance_km <= 0, weight_tons < 0 and
\* toll_cost < 0 before the service is called
fare_endpoint(distance_km, weight_tons, toll_cost) ==
    LET refused == distance_km <= 0 \/ weight_tons < 0 \/ toll_cost < 0
        fare == calculate_fare(distance_km, weight_tons, toll_cost)
    IN [op |-> "calculate_fare",
        error |-> IF refused THEN "RequestValidationError" ELSE fare.error,
        distance_km |-> distance_km, weight_tons |-> weight_tons,
        toll_cost |-> toll_cost,
        total |-> IF ~refused /\ fare.error = None THEN fare.total ELSE 0]

\* the one PREDEFINED_ROUTES entry the requests below reach: distance,
\* duration and the sum of its ten toll costs
DelhiMumbai == [distance_km |-> 1420, duration_hours |-> 24, tolls |-> 1265]

\* the cities of the dead-mile requests; the last is not in CITY_COORDINATES
MapCities == {"Delhi", "Mumbai", "Atlantis"}

\* NeuroLogisticsSupervisor._calculate_dead_mile_cost.  maps.get_route raises
\* ValueError for a city it does not know, and a route from a city to itself
\* has distance 0, which the toll interpolation divides by; every exception
\* is answered with the fixed loss.  Costs are in tenths of a rupee.
calculate_dead_mile_cost(origin, destination) ==
    IF /\ {origin, destination} = {"Delhi", "Mumbai"}
    THEN [op |-> "dead_mile_cost", error |-> None,
          origin |-> origin, destination |-> destination,
          distance_km |-> DelhiMumbai.distance_km,
          total_loss |-> DelhiMumbai.distance_km * 80
                             + DelhiMumbai.tolls * 6
                             + DelhiMumbai.duration_hours * 1500]
    ELSE [op |-> "dead_mile_cost", error |-> None,
          origin |-> origin, destination |-> destination,
          total_loss |-> 150000]

\* CapacityManager._calculate_empty_return_cost: fuel distance / 3.5 * 90,
\* driver distance / 50 * 150, wear distance * 2
EmptyReturnCost(distance_km, toll_cost) ==
    [fuel_cost |-> RoundHalfEven(180 * distance_km, 7),
     toll_cost |-> toll_cost, driver_cost |-> 3 * distance_km,
     wear_cost |-> 2 * distance_km,
     total |-> RoundHalfEven(215 * distance_km + 7 * toll_cost, 7)]

PlanCities == {"mumbai", "Pune ", "Nagpur"}
PlanWeights == {10, 21}
FareDistances == {0, 500, 501}
FareWeights == {-1, 0, 10, 11}

InitPlan == quotes = <<>>

PlanMissionStep ==
    /\ Len(quotes) < MaxQuotes
    /\ \E origin \in PlanCities, destination \in PlanCities,
          weight_tons \in PlanWeights, estimate \in EstimatedDistances :
           quotes' = Append(quotes,
                            plan_mission(origin, destination, "Electronics",
                                         weight_tons, estimate))
    /\ UNCHANGED <<ledgerVars, loopVars, ormVars, storeVars, evalVars,
                   matchVars, replyVars>>

FareStep ==
    /\ Len(quotes) < MaxQuotes
    /\ \E distance_km \in FareDistances, weight_tons \in FareWeights :
           quotes' = Append(quotes, fare_endpoint(distance_km, weight_tons, 0))
    /\ UNCHANGED <<ledgerVars, loopVars, ormVars, storeVars, evalVars,
                   matchVars, replyVars>>

DeadMileCostStep ==
    /\ Len(quotes) < MaxQuotes
    /\ \E origin \in MapCities, destination \in MapCities :
           quotes' = Append(quotes,
                            calculate_dead_mile_cost(origin, destination))
    /\ UNCHANGED <<ledgerVars, loopVars, ormVars, storeVars, evalVars,
                   matchVars, replyVars>>

(***************************************************************************)
(* Capacity and backhaul matching (modules/capacity_manager.py,            *)
(* NeuroLogisticsSupervisor.analyze_capacity_opportunity, GET /loads).     *)
(* matches holds the loads the last call returned and the capacity the     *)
(* call was made for.                                                      *)
(***************************************************************************)
NoMatches == [op |-> None, available_capacity_tons |-> 0, loads |-> <<>>]

MatchResult(op, available_capacity, loads) ==
    [op |-> op, available_capacity_tons |-> available_capacity,
     loads |-> loads]

\* CapacityManager.find_ltl_matches
find_ltl_matches(mission_id, variation, detour_km) ==
    LET mission == missions[mission_id]
        vehicle == vehicles[mission.vehicle_id]
        total_capacity == vehicle.capacity_tons
        current_load == mission.cargo.weight_tons
        available_capacity == total_capacity - current_load
    IN IF available_capacity < 5
       THEN MatchResult("find_ltl_matches", 0, <<>>)
       ELSE MatchResult("find_ltl_matches", available_capacity,
                get_ltl_loads_on_route(mission.current_location,
                    mission.destination, available_capacity,
                    <<variation, detour_km>>))

\* home_base of the request; None falls back to the mission's origin
HomeBases == {None, "delhi "}

\* CapacityManager.find_backhaul: the return loads, and the cost of the
\* empty return over the route get_route_info gives for it
find_backhaul(mission_id, home_base, estimate) ==
    LET mission == missions[mission_id]
        vehicle == vehicles[mission.vehicle_id]
        destination == mission.destination
        origin == IF home_base # None /\ home_base # "" THEN home_base
                  ELSE mission.origin
        capacity == vehicle.capacity_tons
        return_route == get_route_info(destination, origin, estimate)
    IN [op |-> "find_backhaul", available_capacity_tons |-> capacity,
        loads |-> get_backhaul_loads(destination, origin),
        return_route |-> return_route,
        empty_return_cost |->
            EmptyReturnCost(return_route.distance_km,
                            return_route.toll_cost)]

\* TruckState handed to analyze_capacity_opportunity: 5 t and 0 t free
CapacityTrucks ==
    [max_capacity_tons : {280}, current_load_tons : {230, 280}]

\* nearby_loads handed to analyze_capacity_opportunity
NearbyLoads ==
    { [id |-> "n-1", weight_tons |-> 60, offered_rate |-> 9000,
       detour_km |-> 6],
      [id |-> "n-2", weight_tons |-> 30, offered_rate |-> 6500,
       detour_km |-> 30],
      [id |-> "n-3", weight_tons |-> 10, offered_rate |-> 900,
       detour_km |-> 30],
      [id |-> "n-4", weight_tons |-> 50, offered_rate |-> 2400,
       detour_km |-> 6],
      [id |-> "n-5", weight_tons |-> 40, offered_rate |-> 2892,
       detour_km |-> 30] }

NearbyLoadLists ==
    {<<>>} \cup {<<a>> : a \in NearbyLoads}
        \cup {pair \in NearbyLoads \X NearbyLoads : pair[1] # pair[2]}

\* the dict appended to matching_loads
Priced(load) ==
    LET fuel_cost == load.detour_km * 8
        time_cost == (load.detour_km * 500) \div 40
        net_profit == load.offered_rate - fuel_cost - time_cost
    IN [id |-> load.id, weight_tons |-> load.weight_tons,
        offered_rate |-> load.offered_rate, detour_km |-> load.detour_km,
        net_profit |-> net_profit, fuel_cost |-> fuel_cost,
        time_cost |-> time_cost,
        recommendation |-> IF net_profit > 2000 THEN "ACCEPT"
                           ELSE "CONSIDER"]

\* list.sort(key=net_profit, reverse=True): stable, so equal keys keep
\* their order
RECURSIVE SortByNetProfit(_)
SortByNetProfit(loads) ==
    IF loads = <<>> THEN <<>>
    ELSE LET sorted == SortByNetProfit(SubSeq(loads, 1, Len(loads) - 1))
             last == loads[Len(loads)]
             before == SelectSeq(sorted,
                           LAMBDA l : l.net_profit >= last.net_profit)
             after == SelectSeq(sorted,
                          LAMBDA l : l.net_profit < last.net_profit)
         IN before \o <<last>> \o after

\* NeuroLogisticsSupervisor.analyze_capacity_opportunity
analyze_capacity_opportunity(truck, nearby_loads) ==
    LET available == available_capacity_tons(truck)
        fitting == SelectSeq(nearby_loads,
                             LAMBDA l : l.weight_tons <= available)
        priced == [i \in 1..Len(fitting) |-> Priced(fitting[i])]
        matching_loads ==
            SortByNetProfit(SelectSeq(priced,
                LAMBDA l : l.net_profit > config.min_profit_threshold))
    IN MatchResult("analyze_capacity_opportunity", available,
                SubSeq(matching_loads, 1, Min(5, Len(matching_loads))))

\* BackhaulSearchRequest: min_revenue (default 0) and max_detour_km
\* (default 50); max_detour_minutes keeps its default 60
MinRevenues == {0, 1000}
MaxDetours == {5, 50}

\* suggestions.sort(key=match_score, reverse=True): stable
RECURSIVE SortByMatchScore(_)
SortByMatchScore(suggestions) ==
    IF suggestions = <<>> THEN <<>>
    ELSE LET sorted ==
                 SortByMatchScore(SubSeq(suggestions, 1,
                                         Len(suggestions) - 1))
             last == suggestions[Len(suggestions)]
             before == SelectSeq(sorted,
                           LAMBDA x : x.match_score >= last.match_score)
             after == SelectSeq(sorted,
                          LAMBDA x : x.match_score < last.match_score)
         IN before \o <<last>> \o after

\* the BackhaulSuggestion built for one load; match_score in tenths
BackhaulSuggestion(l) ==
    LET load == load_rows[l]
        detour_km == 10
        additional_fuel_cost == detour_km * 8 * 2
        net_benefit == load.offered_rate - additional_fuel_cost
        match_score ==
            Min(1000, Max(0, 500 + net_benefit \div 10 - detour_km * 20))
    IN [load |-> [id |-> l, weight_tons |-> load.weight_tons,
                  offered_rate |-> load.offered_rate],
        detour_km |-> detour_km, detour_minutes |-> detour_km * 2,
        potential_revenue |-> load.offered_rate,
        additional_fuel_cost |-> additional_fuel_cost,
        net_benefit |-> net_benefit, match_score |-> match_score,
        recommendation |-> IF match_score >= 700 THEN "highly_recommended"
                           ELSE IF match_score >= 500 THEN "recommended"
                           ELSE "marginal"]

\* POST /loads/backhaul/search for a mission that exists.  near is the set
\* of loads whose pickup ST_DWithin finds within max_detour_km of the
\* mission's destination.
RECURSIVE search_backhaul_loads(_, _, _, _)
search_backhaul_loads(l, near, min_revenue, max_detour_km) ==
    IF l \notin LoadRowIds
    THEN <<>>
    ELSE LET load == load_rows[l]
             queried == /\ load.status = "posted"
                        /\ l \in near
                        /\ (min_revenue > 0
                                => load.offered_rate >= min_revenue)
             suggestion == BackhaulSuggestion(l)
             kept == /\ queried
                     /\ ~(suggestion.detour_km > max_detour_km
                              \/ suggestion.detour_minutes > 60)
         IN SortByMatchScore(
                (IF kept THEN <<suggestion>> ELSE <<>>)
                    \o search_backhaul_loads(l + 1, near, min_revenue,
                                             max_detour_km))

\* max_weight query parameter of GET /loads
MaxWeights == {0, 50}

InitMatch ==
    /\ matches = NoMatches
    /\ catalogue =
           [id \in {AVAILABLE_LOADS[i].id : i \in 1..Len(AVAILABLE_LOADS)}
                |-> <<>>]

FindLtlMatchesStep ==
    /\ \E mission_id \in MissionIds, variation \in RateVariations,
          detour_km \in Detours :
           /\ matches' = find_ltl_matches(mission_id, variation, detour_km)
           /\ catalogue' =
                  IF matches'.available_capacity_tons = 0 THEN catalogue
                  ELSE PricedCatalogue(<<matches'.available_capacity_tons>>,
                                       "ltl", variation)
    /\ UNCHANGED <<ledgerVars, loopVars, ormVars, storeVars, evalVars,
                   replyVars, planVars>>

FindBackhaulStep ==
    /\ \E mission_id \in MissionIds, home_base \in HomeBases,
          estimate \in EstimatedDistances :
           matches' = find_backhaul(mission_id, home_base, estimate)
    /\ UNCHANGED <<ledgerVars, loopVars, ormVars, storeVars, evalVars,
                   replyVars, planVars, catalogue>>

LtlLoadsOnRouteStep ==
    /\ \E plan \in Plans, available_capacity \in MaxWeights,
          variation \in RateVariations, detour_km \in Detours :
           /\ matches' =
                  MatchResult("get_ltl_loads_on_route", available_capacity,
                      get_ltl_loads_on_route(plan.origin, plan.destination,
                          available_capacity, <<variation, detour_km>>))
           /\ catalogue' =
                  PricedCatalogue(<<available_capacity>>, "ltl", variation)
    /\ UNCHANGED <<ledgerVars, loopVars, ormVars, storeVars, evalVars,
                   replyVars, planVars>>

GetLoadsStep ==
    /\ \E max_weight \in MaxWeights, variation \in RateVariations :
           /\ matches' = MatchResult("get_loads", max_weight,
                             get_available_loads(<<max_weight>>, None,
                                                 variation))
           /\ catalogue' = PricedCatalogue(<<max_weight>>, None, variation)
    /\ UNCHANGED <<ledgerVars, loopVars, ormVars, storeVars, evalVars,
                   replyVars, planVars>>

AnalyzeCapacityStep ==
    /\ \E truck \in CapacityTrucks, nearby_loads \in NearbyLoadLists :
           matches' = analyze_capacity_opportunity(truck, nearby_loads)
    /\ UNCHANGED <<ledgerVars, loopVars, ormVars, storeVars, evalVars,
                   replyVars, planVars, catalogue>>

SearchBackhaulStep ==
    /\ \E near \in SUBSET LoadRowIds, min_revenue \in MinRevenues,
          max_detour_km \in MaxDetours :
           matches' = [op |-> "search_backhaul_loads",
                       suggestions |->
                           search_backhaul_loads(1, near, min_revenue,
                                                 max_detour_km)]
    /\ UNCHANGED <<ledgerVars, loopVars, ormVars, storeVars, evalVars,
                   replyVars, planVars, catalogue>>

NextBackhaul ==
    \/ DemoScenarioStep
    \/ MatchLoadStep
    \/ FindBackhaulStep
    \/ AnalyzeCapacityStep
    \/ SearchBackhaulStep

NextMatch ==
    \/ StartMissionStep
    \/ FindLtlMatchesStep
    \/ FindBackhaulStep
    \/ LtlLoadsOnRouteStep
    \/ GetLoadsStep
    \/ AnalyzeCapacityStep

NextRouting ==
    \/ DemoScenarioStep
    \/ FindBackhaulStep
    \/ PlanMissionStep
    \/ DeadMileCostStep

NextFare ==
    \/ PlanMissionStep
    \/ FareStep

InitReply == response = NoResponse

(***************************************************************************)
(* ETA ranges (data/mock_routes.py, NeuroLogisticsSupervisor,              *)
(* POST /agent/calculate-cost).  Hours are carried in tenths, as the       *)
(* results are after round(x, 1).                                          *)
(***************************************************************************)
\* round(n / d, 1) of a float, in tenths: the nearest tenth; at a decimal
\* tie the binary value of the float decides, so either neighbour
RoundTenth(n, d) ==
    LET q == n \div d
        r == n % d
    IN IF 2 * r < d THEN {q}
       ELSE IF 2 * r > d THEN {q + 1}
       ELSE {q, q + 1}

EtaRange(op, optimistic, expected, pessimistic) ==
    [op |-> op, optimistic |-> optimistic, expected |-> expected,
     pessimistic |-> pessimistic]

\* _add_variability (and the same three factors in _estimate_route): the
\* ETA fields a route may carry
add_variability_swapped(base_hours) ==
    { EtaRange("get_route_info", o, e, p) :
          o \in RoundTenth(base_hours * 150, 100),
          e \in RoundTenth(base_hours * 115, 100),
          p \in RoundTenth(base_hours * 90, 100) }

add_variability(base_hours) ==
    { EtaRange("get_route_info", o, e, p) :
          o \in RoundTenth(base_hours * 90, 100),
          e \in RoundTenth(base_hours * 115, 100),
          p \in RoundTenth(base_hours * 150, 100) }

\* the eta_range of POST /agent/calculate-cost
calculate_cost_eta(duration_hours) ==
    { EtaRange("calculate_cost", o, e, p) :
          o \in RoundTenth(duration_hours * 90, 100),
          e \in RoundTenth(duration_hours * 115, 100),
          p \in RoundTenth(duration_hours * 150, 100) }

\* _calculate_delay_factors: toll and border delays in minutes; the
\* traffic share of the delay is duration_hours * 0.3 * 0.2
DelayMinutes(tolls, checkpoints, cargo_type) ==
    LET toll_delays == tolls * 5
        border_delays ==
            IF \E k \in {"hazmat", "chemicals", "explosives"} :
                   LowerEq(cargo_type, k)
            THEN checkpoints * 15 * 2
            ELSE checkpoints * 15
    IN toll_delays + border_delays

\* _calculate_eta_range(route.duration_hours, delay_factors): in tenths of
\* an hour the expected delay is minutes / 6 + 0.06 * base_hours
calculate_eta_range(base_hours, minutes) ==
    { EtaRange("plan_mission", o, e, p) :
          o \in RoundTenth(base_hours * 95, 100),
          e \in RoundTenth(base_hours * 636 + minutes * 100, 600),
          p \in RoundTenth(base_hours * 690 + minutes * 250, 600) }

\* route durations in tenths of an hour, toll and checkpoint counts
BaseHours == {0, 1, 5, 15, 240}
TollCounts == {0, 3}
CheckpointCounts == {0, 2}
EtaCargoTypes == {"general", "Hazmat"}

EtaRangeStep ==
    /\ Len(quotes) < MaxQuotes
    /\ \E base_hours \in BaseHours, tolls \in TollCounts,
          checkpoints \in CheckpointCounts, cargo_type \in EtaCargoTypes :
           \E eta \in add_variability(base_hours)
                        \cup calculate_cost_eta(base_hours)
                        \cup calculate_eta_range(base_hours,
                                 DelayMinutes(tolls, checkpoints,
                                              cargo_type)) :
               quotes' = Append(quotes, eta)
    /\ UNCHANGED <<ledgerVars, loopVars, ormVars, storeVars, evalVars,
                   matchVars, replyVars>>

NextEta == EtaRangeStep

(***************************************************************************)
(* The alerts of _observe, with run_decision_loop called on the boundary   *)
(* of every alert condition.                                               *)
(***************************************************************************)
AlertTruck(fuel_level_percent, driver_hours_remaining) ==
    [vehicle_id |-> "v-001", fuel_level_percent |-> fuel_level_percent,
     max_capacity_tons |-> 28, current_load_tons |-> 25,
     driver_hours_remaining |-> driver_hours_remaining]

AlertEnvironment(weather_condition, traffic_level, is_strike_alert) ==
    [weather_condition |-> weather_condition,
     traffic_level |-> traffic_level, is_strike_alert |-> is_strike_alert]

\* <<truck, environment>> of the calls
AlertCases ==
    { <<AlertTruck(80, 6), AlertEnvironment("clear", "light", FALSE)>>,
      <<AlertTruck(25, 2), AlertEnvironment("rain", "moderate", FALSE)>>,
      <<AlertTruck(24, 6), AlertEnvironment("clear", "light", FALSE)>>,
      <<AlertTruck(80, 1), AlertEnvironment("clear", "light", FALSE)>>,
      <<AlertTruck(80, 6), AlertEnvironment("clear", "heavy", FALSE)>>,
      <<AlertTruck(80, 6), AlertEnvironment("storm", "light", FALSE)>>,
      <<AlertTruck(80, 6), AlertEnvironment("fog", "light", FALSE)>>,
      <<AlertTruck(80, 6), AlertEnvironment("clear", "light", TRUE)>>,
      <<AlertTruck(24, 1), AlertEnvironment("fog", "heavy", TRUE)>>,
      <<AlertTruck(0, 0), AlertEnvironment("storm", "heavy", TRUE)>> }

AlertLoopStep ==
    /\ \E case \in AlertCases :
           run_decision_loop(case[1], NoMission, case[2], <<>>)
    /\ UNCHANGED <<ledgerVars, ormVars, storeVars, evalVars, matchVars,
                   replyVars, planVars>>

NextAlerts == AlertLoopStep

(***************************************************************************)
(* Risk assessments (MissionPlanner._assess_risk on the route dicts of     *)
(* data/mock_routes.py, NeuroLogisticsSupervisor._assess_route_risks on    *)
(* RouteInfo objects).                                                     *)
(***************************************************************************)
RiskAssessment(op, risk_score, level) ==
    [op |-> op, score |-> Min(risk_score, 100), level |-> level]

\* MissionPlanner._assess_risk
assess_risk(route, cargo_type, weight_tons) ==
    LET risk_score ==
            (IF route.distance_km > 1000 THEN 15
             ELSE IF route.distance_km > 500 THEN 8 ELSE 0)
          + (IF route.checkpoints > 3 THEN 20
             ELSE IF route.checkpoints > 1 THEN 10 ELSE 0)
          + (IF \E k \in {"hazmat", "chemicals", "perishables",
                          "pharmaceuticals"} : LowerEq(cargo_type, k)
             THEN 15 ELSE 0)
          + (IF weight_tons > 22 THEN 10 ELSE 0)
          + (IF route.risk_level = "high" THEN 15 ELSE 0)
    IN RiskAssessment("assess_risk", risk_score,
           IF risk_score < 25 THEN "low"
           ELSE IF risk_score < 50 THEN "medium" ELSE "high")

\* NeuroLogisticsSupervisor._assess_route_risks; minutes are the toll and
\* border delays, duration_hours is in tenths, and the expected delay
\* minutes / 60 + duration_hours * 0.06 exceeds 3 hours when
\* 100 * minutes + 36 * tenths exceeds 18000
assess_route_risks(route, minutes) ==
    LET risk_score ==
            (IF route.distance_km > 1000 THEN 15 ELSE 0)
          + (IF route.checkpoints > 2 THEN 10 * route.checkpoints ELSE 0)
          + (IF 100 * minutes + 36 * route.duration_hours > 18000
             THEN 20 ELSE 0)
    IN RiskAssessment("assess_route_risks", risk_score,
           IF risk_score < 30 THEN "low"
           ELSE IF risk_score < 60 THEN "medium" ELSE "high")

\* RouteInfo values: Delhi-Mumbai, Delhi-Kolkata and Chennai-Bangalore of
\* PREDEFINED_ROUTES, and a 1100 km route with four state borders
RouteInfos ==
    { [distance_km |-> 1420, duration_hours |-> 240, tolls |-> 10,
       checkpoints |-> 3],
      [distance_km |-> 1530, duration_hours |-> 260, tolls |-> 7,
       checkpoints |-> 4],
      [distance_km |-> 350, duration_hours |-> 60, tolls |-> 3,
       checkpoints |-> 1],
      [distance_km |-> 1100, duration_hours |-> 200, tolls |-> 0,
       checkpoints |-> 4] }

RiskCities == {"Delhi", "Mumbai", "Pune", "Nagpur"}
RiskWeights == {10, 23}

RouteRiskStep ==
    /\ Len(quotes) < MaxQuotes
    /\ \E route \in RouteInfos, cargo_type \in EtaCargoTypes :
           quotes' = Append(quotes,
               assess_route_risks(route,
                   DelayMinutes(route.tolls, route.checkpoints, cargo_type)))
    /\ UNCHANGED <<ledgerVars, loopVars, ormVars, storeVars, evalVars,
                   matchVars, replyVars>>

PlanRiskStep ==
    /\ Len(quotes) < MaxQuotes
    /\ \E origin \in RiskCities, destination \in RiskCities,
          estimate \in EstimatedDistances, cargo_type \in EtaCargoTypes,
          weight_tons \in RiskWeights :
           quotes' = Append(quotes,
               assess_risk(get_route_info(origin, destination, estimate),
                           cargo_type, weight_tons))
    /\ UNCHANGED <<ledgerVars, loopVars, ormVars, storeVars, evalVars,
                   matchVars, replyVars>>

NextRisk == RouteRiskStep \/ PlanRiskStep

(***************************************************************************)
(* Pooling several LTL loads on one mission (CapacityManager).             *)
(***************************************************************************)
RECURSIVE PooledWeight(_)
\* sum(p["weight_tons"] for p in pooled) of get_capacity_overview
PooledWeight(pooled) ==
    IF pooled = <<>> THEN 0
    ELSE Head(pooled).weight_tons + PooledWeight(Tail(pooled))

\* CapacityManager.get_capacity_overview: load_tons of one mission
MissionLoadTons(mission) ==
    mission.cargo.weight_tons + PooledWeight(mission.pooled_loads)

\* load ids a client pools, the same id more than once included
PooledLoadIds == {"ltl-004", "ltl-005"}

PoolLtlStep ==
    /\ \E mission_id \in RequestedMissionIds, load_id \in PooledLoadIds :
           accept_ltl_load(mission_id, load_id, 115)
    /\ UNCHANGED <<ledgerVars, loopVars, ormVars, evalVars, matches,
                   planVars>>

NextPool == StartMissionStep \/ PoolLtlStep

(***************************************************************************)
(* Matching and cancelling posted loads (api/v1/loads.py).                 *)
(***************************************************************************)
\* current_user.id of the caller
UserIds == {"u-1", "u-2"}

\* POST /loads/{load_id}/cancel: a load of another shipper is answered
\* with 404, a load that is not POSTED with 400, both without a write
cancel_load(l, user_id) ==
    LET load == load_rows[l]
    IN IF \/ load.shipper_id # user_id
          \/ load.status # "posted"
       THEN UNCHANGED ormVars
       ELSE /\ load_rows' = [load_rows EXCEPT ![l].status = "cancelled"]
            /\ UNCHANGED <<vehicle_rows, mission_load_rows, mission_rows>>

CancelLoadStep ==
    /\ \E l \in LoadRowIds, user_id \in UserIds : cancel_load(l, user_id)
    /\ UNCHANGED <<ledgerVars, loopVars, storeVars, evalVars, matchVars,
                   replyVars, planVars>>

NextLoads ==
    \/ AddLoadStep
    \/ RemoveLoadStep
    \/ MatchLoadStep
    \/ CancelLoadStep

(***************************************************************************)
(* The mission lifecycle endpoints (api/v1/missions.py).  Every endpoint   *)
(* is one database transaction; a 404 or 400 answer writes nothing.        *)
(***************************************************************************)
\* MissionStatus
MissionStatuses ==
    {"draft", "planned", "assigned", "en_route_pickup", "at_pickup",
     "loading", "in_transit", "at_delivery", "unloading", "completed",
     "cancelled"}

DriverIds == {"d-1", "d-2"}
OperatorIds == {"o-1", "o-2"}

\* PATCH /missions/{mission_id} with a status in the MissionUpdate body
missions_update_mission(m, operator_id, status) ==
    IF mission_rows[m].operator_id # operator_id
    THEN UNCHANGED mission_rows
    ELSE mission_rows' = [mission_rows EXCEPT ![m].status = status]

\* POST /missions/{mission_id}/start
missions_start_mission(m, driver_id) ==
    IF \/ mission_rows[m].driver_id # driver_id
       \/ mission_rows[m].status \notin {"planned", "assigned"}
    THEN UNCHANGED mission_rows
    ELSE mission_rows' =
             [mission_rows EXCEPT ![m].status = "en_route_pickup",
                                  ![m].actual_start = "utcnow"]

\* POST /missions/{mission_id}/complete
complete_mission(m, driver_id) ==
    IF \/ mission_rows[m].driver_id # driver_id
       \/ mission_rows[m].status # "at_delivery"
    THEN UNCHANGED mission_rows
    ELSE mission_rows' =
             [mission_rows EXCEPT ![m].status = "completed",
                                  ![m].actual_end = "utcnow"]

\* cancel_mission without the test for a completed mission
cancel_mission_any_status(m, operator_id) ==
    IF mission_rows[m].operator_id # operator_id
    THEN UNCHANGED mission_rows
    ELSE mission_rows' = [mission_rows EXCEPT ![m].status = "cancelled"]

\* POST /missions/{mission_id}/cancel
cancel_mission(m, operator_id) ==
    IF \/ mission_rows[m].operator_id # operator_id
       \/ mission_rows[m].status = "completed"
    THEN UNCHANGED mission_rows
    ELSE mission_rows' = [mission_rows EXCEPT ![m].status = "cancelled"]

\* valid_transitions of update_mission_status
valid_transitions ==
    [en_route_pickup |-> {"at_pickup"}, at_pickup |-> {"loading"},
     loading |-> {"in_transit"}, in_transit |-> {"at_delivery"},
     at_delivery |-> {"unloading"}, unloading |-> {"completed"}]

\* POST /missions/{mission_id}/update-status
missions_update_mission_status(m, driver_id, new_status) ==
    IF \/ mission_rows[m].driver_id # driver_id
       \/ mission_rows[m].status \notin DOMAIN valid_transitions
       \/ new_status \notin valid_transitions[mission_rows[m].status]
    THEN UNCHANGED mission_rows
    ELSE mission_rows' =
             [mission_rows EXCEPT
                 ![m].status = new_status,
                 ![m].actual_end =
                     IF new_status = "completed" THEN "utcnow" ELSE @]

LifecycleFrame ==
    UNCHANGED <<ledgerVars, loopVars, storeVars, evalVars, matchVars,
                replyVars, planVars, vehicle_rows, load_rows,
                mission_load_rows>>

UpdateMissionStep ==
    /\ \E m \in OrmMissionIds, operator_id \in OperatorIds,
          status \in MissionStatuses :
           missions_update_mission(m, operator_id, status)
    /\ LifecycleFrame

StartStep ==
    /\ \E m \in OrmMissionIds, driver_id \in DriverIds :
           missions_start_mission(m, driver_id)
    /\ LifecycleFrame

CompleteStep ==
    /\ \E m \in OrmMissionIds, driver_id \in DriverIds :
           complete_mission(m, driver_id)
    /\ LifecycleFrame

CancelStep ==
    /\ \E m \in OrmMissionIds, operator_id \in OperatorIds :
           cancel_mission(m, operator_id)
    /\ LifecycleFrame

UpdateStatusStep ==
    /\ \E m \in OrmMissionIds, driver_id \in DriverIds,
          new_status \in MissionStatuses :
           missions_update_mission_status(m, driver_id, new_status)
    /\ LifecycleFrame

NextLifecycle ==
    \/ UpdateMissionStep
    \/ StartStep
    \/ UpdateStatusStep
    \/ CompleteStep
    \/ CancelStep

(***************************************************************************)
(* run_decision_loop coroutines started concurrently on one supervisor     *)
(* (asyncio tasks on one event loop).  A task runs from the point where it *)
(* is resumed to its next suspension; the only await of run_decision_loop  *)
(* is the one on _reason.                                                  *)
(***************************************************************************)
\* a _reason that suspends at an await of its own
ReasonSuspendsAlways == TRUE

\* whether "await self._reason(observation)" hands control to the event
\* loop: _reason holds no await expression, so it runs to its return
ReasonSuspends == FALSE

\* arguments of the concurrent calls
TaskCases ==
    {<<truck, NoMission, environment, <<>>>> :
        truck \in {t \in Trucks : /\ t.driver_hours_remaining = 6
                                  /\ t.current_load_tons = 25},
        environment \in Environments}

\* asyncio.create_task(supervisor.run_decision_loop(...))
create_task(t, case) ==
    /\ loop_tasks[t].pc = "none"
    /\ loop_tasks' =
           [loop_tasks EXCEPT ![t] =
               Task("scheduled", case,
                    \E u \in TaskIds : loop_tasks[u].pc = "scheduled", <<>>)]
    /\ UNCHANGED <<observation_history, decision_history, action_queue>>

\* the rest of run_decision_loop after _reason returned
FinishLoop(t, observation) ==
    LET decision == Decide(observation, Reason(observation))
    IN /\ decision_history' = Append(decision_history, decision)
       /\ action_queue' = Append(action_queue, CreateAction(decision))
       /\ loop_tasks' = [loop_tasks EXCEPT ![t].pc = "done"]

\* the event loop runs task t up to its next suspension
run_task(t) ==
    LET task == loop_tasks[t]
    IN IF task.pc = "scheduled"
       THEN LET observation == Observe(task.case[1], task.case[2],
                                       task.case[3], task.case[4])
            IN /\ observation_history' =
                      Append(observation_history, observation)
               /\ IF ReasonSuspends
                  THEN /\ loop_tasks' =
                              [loop_tasks EXCEPT
                                  ![t].pc = "suspended",
                                  ![t].observation = <<observation>>]
                       /\ UNCHANGED <<decision_history, action_queue>>
                  ELSE FinishLoop(t, observation)
       ELSE /\ task.pc = "suspended"
            /\ FinishLoop(t, task.observation[1])
            /\ UNCHANGED observation_history

CreateTaskStep ==
    /\ \E t \in TaskIds, case \in TaskCases : create_task(t, case)
    /\ UNCHANGED <<ledgerVars, ormVars, storeVars, evalVars, matchVars,
                   replyVars, planVars>>

RunTaskStep ==
    /\ \E t \in TaskIds : run_task(t)
    /\ UNCHANGED <<ledgerVars, ormVars, storeVars, evalVars, matchVars,
                   replyVars, planVars>>

NextTasks == CreateTaskStep \/ RunTaskStep

(***************************************************************************)
(* Composition                                                             *)
(***************************************************************************)
vars ==
    <<ledgerVars, loopVars, ormVars, storeVars, evalVars, matchVars,
      replyVars, planVars>>

Init ==
    /\ InitLedger
    /\ InitLoop
    /\ InitOrm
    /\ InitStore
    /\ InitEval
    /\ InitMatch
    /\ InitReply
    /\ InitPlan

SpecLedger == Init /\ [][NextLedger]_vars

SpecLoop == Init /\ [][NextLoop]_vars

SpecFleet == Init /\ [][NextFleet]_vars

SpecEval == Init /\ [][NextEval]_vars

SpecMatch == Init /\ [][NextMatch]_vars

SpecHistory == Init /\ [][NextHistory]_vars

SpecAdvisory == Init /\ [][NextAdvisory]_vars

SpecRouting == Init /\ [][NextRouting]_vars

SpecFare == Init /\ [][NextFare]_vars

SpecBackhaul == Init /\ [][NextBackhaul]_vars

SpecEta == Init /\ [][NextEta]_vars

SpecAlerts == Init /\ [][NextAlerts]_vars

SpecRisk == Init /\ [][NextRisk]_vars

SpecPool == Init /\ [][NextPool]_vars

SpecLoads == Init /\ [][NextLoads]_vars

SpecLifecycle == Init /\ [][NextLifecycle]_vars

SpecTasks == Init /\ [][NextTasks]_vars

\* C1: an accept or reject attempted on a record that is not PENDING fails
\* with InvalidStateTransition and leaves status, decided_at, decided_by and
\* rejection_reason as they were.
C1_SecondTransitionRejected ==
    (outcome.op \in {"accept", "reject"} /\ outcome.before.status # "pending")
        => /\ outcome.raised = "InvalidStateTransition"
           /\ decisions[outcome.id].status = outcome.before.status
           /\ decisions[outcome.id].decided_at = outcome.before.decided_at
           /\ decisions[outcome.id].decided_by = outcome.before.decided_by
           /\ decisions[outcome.id].rejection_reason
                = outcome.before.rejection_reason

\* C2: EXECUTED is reached only from ACCEPTED or AUTO_ACCEPTED, and no call
\* changes the status of a record that is REJECTED, EXPIRED or EXECUTED.
C2_ExecutedOnlyFromAccepted ==
    /\ (outcome.op = "mark_executed"
            /\ outcome.before.status \notin {"accepted", "auto_accepted"})
        => decisions[outcome.id].status # "executed"
    /\ (outcome.op # None
            /\ outcome.before.status \in {"rejected", "expired", "executed"})
        => decisions[outcome.id].status = outcome.before.status
(***************************************************************************)
(* Decision policy claims (SpecLoop).  Entry i of decision_history is the  *)
(* Decision run_decision_loop returned for entry i of observation_history. *)
(***************************************************************************)
Evaluations == 1..Len(decision_history)

RestDue(i) ==
    observation_history[i].truck.driver_hours_remaining
        < config.driver_rest_threshold_hours

FuelLow(i) ==
    observation_history[i].truck.fuel_level_percent < FuelConstraintPercent

HeavyTraffic(i) == observation_history[i].environment.traffic_level = "heavy"

ReturnLoadDue(i) ==
    /\ observation_history[i].mission # NoMission
    /\ progress_percent(observation_history[i].mission) > 70

Returned(i, type, priority) ==
    /\ decision_history[i].decision_type = type
    /\ decision_history[i].priority = priority

\* C3: whenever driver_hours_remaining is below the rest threshold, the
\* Decision returned is REST_STOP with priority critical, also when a fuel
\* constraint is present.
C3_RestStopWhenRestDue ==
    \A i \in Evaluations : RestDue(i) => Returned(i, "rest_stop", "critical")

\* C4: whenever the fuel level is below the fuel threshold and the driver's
\* hours are not below the rest threshold, the Decision returned is FUEL_STOP
\* with priority high, whatever the traffic, capacity headroom, mission
\* progress and candidate loads are.
C4_FuelStopWhenFuelLow ==
    \A i \in Evaluations :
        (FuelLow(i) /\ ~RestDue(i)) => Returned(i, "fuel_stop", "high")

\* C4 witness: fuel 20 %, 6 hours left, heavy traffic, spare capacity, a
\* mission past 70 % and a high-match load, answered with FUEL_STOP.
C4_Witness ==
    \E i \in Evaluations :
        /\ observation_history[i].truck.fuel_level_percent = 20
        /\ observation_history[i].truck.driver_hours_remaining = 6
        /\ HeavyTraffic(i)
        /\ ReturnLoadDue(i)
        /\ available_capacity_tons(observation_history[i].truck) > 5
        /\ observation_history[i].available_loads # <<>>
        /\ Returned(i, "fuel_stop", "high")

\* C8: with no constraints and heavy traffic (a traffic-related risk) the
\* Decision is ROUTE_CHANGE with priority medium, also when opportunities
\* are present; and ROUTE_CHANGE is never returned with a constraint present.
C8_RouteChangeOnTrafficRisk ==
    \A i \in Evaluations :
        LET reasoning == decision_history[i].reasoning
        IN /\ (reasoning.constraints = <<>>
                /\ (HeavyTraffic(i)
                    \/ InListLower(reasoning.risks, "traffic")))
              => Returned(i, "route_change", "medium")
           /\ reasoning.constraints # <<>>
              => decision_history[i].decision_type # "route_change"

\* C8 witness: heavy traffic, no constraint, two opportunities present, and
\* ROUTE_CHANGE returned.
C8_Witness ==
    \E i \in Evaluations :
        /\ decision_history[i].reasoning.constraints = <<>>
        /\ decision_history[i].reasoning.risks # <<>>
        /\ Len(decision_history[i].reasoning.opportunities) >= 2
        /\ Returned(i, "route_change", "medium")

\* C9: with no constraints and no risks, a return-load opportunity among the
\* opportunities (mission progress above 70 %) gives BOOK_RETURN_LOAD with
\* priority medium, and opportunities that are all LTL/capacity ones give
\* ACCEPT_LTL_LOAD with priority low.
C9_ReturnLoadBeforeLtl ==
    \A i \in Evaluations :
        LET reasoning == decision_history[i].reasoning
        IN (reasoning.constraints = <<>> /\ reasoning.risks = <<>>)
            => /\ ReturnLoadDue(i)
                    => Returned(i, "book_return_load", "medium")
               /\ (reasoning.opportunities # <<>>
                    /\ \A k \in 1..Len(reasoning.opportunities) :
                        reasoning.opportunities[k]
                            = "Can accept additional LTL loads")
                    => Returned(i, "accept_ltl_load", "low")

\* C10: NO_ACTION with priority low is returned exactly when the Reasoning
\* has no constraints, no risks and no opportunities.
C10_NoActionIffNothingToDo ==
    \A i \in Evaluations :
        LET reasoning == decision_history[i].reasoning
        IN Returned(i, "no_action", "low")
            <=> /\ reasoning.constraints = <<>>
                /\ reasoning.risks = <<>>
                /\ reasoning.opportunities = <<>>

(***************************************************************************)
(* Vehicle load bookkeeping                                                *)
(***************************************************************************)
\* C5: after any sequence of add_load, remove_load, start_mission,
\* match_load_to_mission and accept_ltl_load calls every vehicle, in the
\* ORM table and in the DataStore, has 0 <= current_load_tons <= its
\* maximum capacity.
C5_LoadWithinCapacity ==
    /\ \A v \in VehicleRowIds :
           /\ 0 <= vehicle_rows[v].current_load_tons
           /\ vehicle_rows[v].current_load_tons
                  <= vehicle_rows[v].max_capacity_tons
    /\ \A v \in VehicleIds :
           /\ 0 <= vehicles[v].current_load_tons
           /\ vehicles[v].current_load_tons <= vehicles[v].capacity_tons

(***************************************************************************)
(* Concurrent evaluations of one mission                                   *)
(***************************************************************************)
Completed(mission_id) ==
    {e \in EvaluationIds : /\ evaluations[e].pc = "done"
                           /\ evaluations[e].mission_id = mission_id}

\* C6: concurrent evaluate_situation calls for one mission behave as if
\* serialized.  Every completed evaluation has exactly one entry in the
\* mission's log and none is lost or overwritten; the mission's
\* progress_percent and current_location are those of the last entry; and
\* the log is one that running the same evaluations one after the other
\* would leave: an evaluation that runs later reads the clock later, so the
\* entries stand in the order in which their observations were taken.
C6_AsIfSerialized ==
    \A m \in MissionIds :
        /\ Len(decision_logs[m]) = Cardinality(Completed(m))
        /\ \A e \in Completed(m) :
               decision_logs[m][evaluations[e].entry].observation
                   = evaluations[e].observation
        /\ decision_logs[m] # <<>> =>
               LET last == decision_logs[m][Len(decision_logs[m])]
               IN /\ missions[m].progress_percent
                         = last.observation.progress_percent
                  /\ missions[m].current_location
                         = last.observation.current_location
        /\ \A e1 \in Completed(m), e2 \in Completed(m) :
               evaluations[e1].entry < evaluations[e2].entry
                   => evaluations[e1].observed_at
                          <= evaluations[e2].observed_at

(***************************************************************************)
(* Capacity matching                                                       *)
(***************************************************************************)
\* C7: every load a capacity-matching entry point returns weighs no more
\* than the capacity available for that call, for every capacity value
\* including 0.
C7_ReturnedLoadsFit ==
    \A i \in 1..Len(matches.loads) :
        matches.loads[i].weight_tons <= matches.available_capacity_tons

(***************************************************************************)
(* Decision histories                                                      *)
(***************************************************************************)
\* old is the beginning of new
IsPrefix(old, new) ==
    /\ Len(old) <= Len(new)
    /\ SubSeq(new, 1, Len(old)) = old

\* the step added exactly one entry at the end of one mission's log and
\* left every other log as it was
OneEntryLogged ==
    \E m \in MissionIds :
        /\ Len(decision_logs'[m]) = Len(decision_logs[m]) + 1
        /\ IsPrefix(decision_logs[m], decision_logs'[m])
        /\ \A o \in MissionIds \ {m} : decision_logs'[o] = decision_logs[o]

\* C11: the decision history is append-only.  Every step of
\* evaluate_situation, evaluate_opportunity, book_backhaul, accept_ltl_load,
\* update_mission and run_decision_loop leaves every entry that a mission's
\* log or the supervisor's decision_history already holds where it was and
\* as it was; each call of log_decision (a finished evaluate_situation or
\* evaluate_opportunity, a booked backhaul) adds exactly one entry at the
\* end of the mission's log, and each run_decision_loop adds exactly one at
\* the end of decision_history.
C11_AppendOnly ==
    [][ /\ \A m \in MissionIds :
               IsPrefix(decision_logs[m], decision_logs'[m])
        /\ IsPrefix(decision_history, decision_history')
        /\ \A m \in MissionIds :
               decision_logs'[m] # decision_logs[m] => OneEntryLogged
        /\ FinishEvaluateStep => OneEntryLogged
        /\ (EvaluateOpportunityStep /\ missions # <<>>) => OneEntryLogged
        /\ (BookBackhaulStep /\ response'.error = None) => OneEntryLogged
        /\ RoutineLoopStep
               => Len(decision_history') = Len(decision_history) + 1
      ]_vars

\* a mission's log holds an evaluation and, after it, a booked backhaul,
\* the mission has since pooled a load and been marked delayed, and the
\* supervisor has decided twice
C11_Witness ==
    \E m \in MissionIds :
        /\ Len(decision_logs[m]) >= 2
        /\ "observation" \in DOMAIN decision_logs[m][1]
        /\ "type" \in DOMAIN decision_logs[m][2]
        /\ decision_logs[m][2].type = "backhaul_booked"
        /\ missions[m].pooled_loads # <<>>
        /\ missions[m].status = "delayed"
        /\ Len(decision_history) >= 2

\* C12: every successful accept_ltl_load and every successful book_backhaul
\* appends exactly one entry to the mission's decision log, and a call that
\* answers with an error appends none.
C12_AcceptanceLogged ==
    [][ /\ (PoolLoadStep /\ response'.error = None) => OneEntryLogged
        /\ (BookBackhaulStep /\ response'.error = None) => OneEntryLogged
        /\ ((PoolLoadStep \/ BookBackhaulStep) /\ response'.error # None)
               => decision_logs' = decision_logs
      ]_vars

(***************************************************************************)
(* Advisory failure                                                        *)
(***************************************************************************)
\* C13: when the advisory collaborator is unavailable or fails, the
\* decision-loop endpoint and evaluate_situation still return a heuristic
\* decision: the endpoint never answers with an error, and every finished
\* evaluation whose advisory reply was unusable has logged a decision with
\* the default action.
C13_HeuristicFallback ==
    /\ response.op = "run_decision_loop" => response.error = None
    /\ \A e \in EvaluationIds :
           evaluations[e].pc = "done" =>
               LET entry ==
                       decision_logs[evaluations[e].mission_id]
                                    [evaluations[e].entry]
               IN entry.ai_evaluation = RawResponse
                      => entry.decision.action = "CONTINUE"

(***************************************************************************)
(* Routes and fares                                                        *)
(***************************************************************************)
\* the table of known routes holds the pair, in either direction
KnownPair(origin, destination) ==
    LET o == Title(Strip(origin))
        d == Title(Strip(destination))
    IN RoutesBetween(o, d) \o RoutesBetween(d, o) # <<>>

\* C14: when routing cannot supply a route for a city pair, plan_mission,
\* find_backhaul and the dead-mile cost fail with RoutingUnavailable: no
\* plan is quoted for a pair outside the route table, no empty-return cost
\* is computed over an estimated route, and no dead-mile loss is answered
\* without a route distance.
C14_RoutingUnavailable ==
    /\ \A i \in 1..Len(quotes) :
           /\ (quotes[i].op = "plan_mission"
                   /\ ~KnownPair(quotes[i].origin, quotes[i].destination))
                  => quotes[i].error = "RoutingUnavailable"
           /\ (quotes[i].op = "dead_mile_cost"
                   /\ "distance_km" \notin DOMAIN quotes[i])
                  => quotes[i].error = "RoutingUnavailable"
    /\ (matches.op = "find_backhaul"
            /\ ~KnownPair(matches.return_route.origin,
                          matches.return_route.destination))
           => "error" \in DOMAIN matches

(***************************************************************************)
(* Refused loads                                                           *)
(***************************************************************************)
\* C15: a load that exceeds the available tons is refused with an
\* insufficient-capacity error that reports both the required and the
\* available tons, whichever entry point (accept_ltl_load, the add-load
\* endpoint over Vehicle.add_load) refused it.
C15_InsufficientCapacityReported ==
    response.error = "Insufficient capacity"
        => /\ response.required # <<>>
           /\ response.available # <<>>

(***************************************************************************)
(* Fares                                                                   *)
(***************************************************************************)
\* C16: a fare request with distance_km <= 0 or weight_tons <= 0 is refused
\* before anything is computed: the answer is an error and carries no fare.
C16_FareRejectsBadInput ==
    \A i \in 1..Len(quotes) :
        (quotes[i].op \in {"calculate_fare", "plan_mission"}
             /\ (quotes[i].distance_km <= 0 \/ quotes[i].weight_tons <= 0))
            => quotes[i].error # None

\* two quotes of one fare computation whose inputs are the same except that
\* the second has at least the weight, or at least the distance, of the first
FareInputsGrow(a, b) ==
    /\ a.op = b.op
    /\ a.op \in {"calculate_fare", "plan_mission"}
    /\ a.error = None
    /\ b.error = None
    /\ a.op = "plan_mission" =>
           /\ a.origin = b.origin
           /\ a.destination = b.destination
           /\ a.checkpoints = b.checkpoints
    /\ \/ a.weight_tons <= b.weight_tons /\ a.distance_km = b.distance_km
       \/ a.distance_km <= b.distance_km /\ a.weight_tons = b.weight_tons

\* C20: the total fare never decreases when the weight or the distance
\* increases and the other inputs stay as they were.
C20_FareMonotonic ==
    \A i \in 1..Len(quotes), j \in 1..Len(quotes) :
        FareInputsGrow(quotes[i], quotes[j])
            => quotes[i].total <= quotes[j].total

(***************************************************************************)
(* Match results                                                           *)
(***************************************************************************)
\* C17: in every cost-benefit result the reported net benefit is exactly the
\* offered rate less the reported fuel cost less the reported time cost;
\* here for the calculated_analysis of every logged opportunity evaluation.
C17_NetBenefitExact ==
    \A m \in MissionIds :
        \A i \in 1..Len(decision_logs[m]) :
            LET entry == decision_logs[m][i]
            IN ("type" \in DOMAIN entry
                    /\ entry.type = "opportunity_evaluation")
                   => LET analysis == entry.result.calculated_analysis
                      IN analysis.net_benefit
                             = analysis.revenue - analysis.fuel_cost
                                   - analysis.time_cost

\* C18: no load whose net benefit is at most the minimum profit threshold
\* (500) appears in the ranked result of analyze_capacity_opportunity or of
\* search_backhaul_loads.
C18_UnprofitableExcluded ==
    /\ matches.op = "analyze_capacity_opportunity"
           => \A i \in 1..Len(matches.loads) :
                  matches.loads[i].net_profit > config.min_profit_threshold
    /\ matches.op = "search_backhaul_loads"
           => \A i \in 1..Len(matches.suggestions) :
                  matches.suggestions[i].net_benefit
                      > config.min_profit_threshold

\* C19: the returned matches are ranked: a match never precedes one that
\* ranks higher, and of two matches with equal rank and equal net benefit
\* the one with the shorter detour comes first, whatever the input order.
C19_RankedWithTieBreak ==
    /\ matches.op = "analyze_capacity_opportunity"
           => \A i, j \in 1..Len(matches.loads) :
                  i < j
                      => LET a == matches.loads[i]
                             b == matches.loads[j]
                         IN /\ a.net_profit >= b.net_profit
                            /\ a.net_profit = b.net_profit
                                   => a.detour_km <= b.detour_km
    /\ matches.op = "search_backhaul_loads"
           => \A i, j \in 1..Len(matches.suggestions) :
                  i < j
                      => LET a == matches.suggestions[i]
                             b == matches.suggestions[j]
                         IN /\ a.match_score >= b.match_score
                            /\ a.match_score = b.match_score
                                   => a.net_benefit >= b.net_benefit
                            /\ (a.match_score = b.match_score
                                    /\ a.net_benefit = b.net_benefit)
                                   => a.detour_km <= b.detour_km

(***************************************************************************)
(* Route estimates                                                         *)
(***************************************************************************)
\* C21: every ETA range returned has optimistic <= expected <= pessimistic
\* after the three values are rounded to one decimal, for every base
\* duration and every number of tolls and checkpoints.
C21_EtaOrdered ==
    \A i \in 1..Len(quotes) :
        quotes[i].op \in {"get_route_info", "calculate_cost", "plan_mission"}
            => /\ quotes[i].optimistic <= quotes[i].expected
               /\ quotes[i].expected <= quotes[i].pessimistic

\* a delayed route whose three rounded values differ, from each source
C21_Witness ==
    /\ Len(quotes) = 2
    /\ quotes[1].op = "plan_mission"
    /\ quotes[1].optimistic < quotes[1].expected
    /\ quotes[1].expected < quotes[1].pessimistic
    /\ quotes[2].op = "get_route_info"
    /\ quotes[2].optimistic < quotes[2].expected

(***************************************************************************)
(* Backhaul options                                                        *)
(***************************************************************************)
\* C22: every option find_backhaul returns from get_backhaul_loads is
\* picked up at the (normalised) destination, and every direct option, one
\* delivered at the home base, has a strictly higher match score than every
\* partial option and is listed before it.
C22_BackhaulOptionsRanked ==
    matches.op = "find_backhaul"
        => LET options == matches.loads
               destination == matches.return_route.origin
               home_base == matches.return_route.destination
               IsDirect(o) == o.delivery_city = home_base
           IN /\ \A i \in 1..Len(options) :
                     options[i].pickup_city = destination
              /\ \A i, j \in 1..Len(options) :
                     (IsDirect(options[i]) /\ ~IsDirect(options[j]))
                         => /\ options[i].match_score > options[j].match_score
                            /\ i < j

\* a search that returned a direct and a partial option
C22_Witness ==
    /\ matches.op = "find_backhaul"
    /\ \E i, j \in 1..Len(matches.loads) :
           /\ matches.loads[i].delivery_city = matches.return_route.destination
           /\ matches.loads[j].delivery_city # matches.return_route.destination

(***************************************************************************)
(* Independence of vehicles                                                *)
(***************************************************************************)
\* C23: an operation for one vehicle (find_ltl_matches, accept_ltl_load)
\* leaves unchanged the state an evaluation for another vehicle reads or
\* owns: the supervisor histories and action queue, the mission and the
\* vehicle record of every other vehicle, and the rates of the load data.
C23_NoSharedMutableState ==
    [][ (FindLtlMatchesStep \/ AcceptLtlLoadStep)
            => /\ catalogue' = catalogue
               /\ UNCHANGED loopVars
               /\ \A a, b \in VehicleIds :
                      (a # b /\ vehicles'[a] # vehicles[a])
                          => vehicles'[b] = vehicles[b]
               /\ \A m, n \in MissionIds :
                      (m # n /\ missions'[m] # missions[m])
                          => missions'[n] = missions[n] ]_vars

(***************************************************************************)
(* Observations                                                            *)
(***************************************************************************)
\* C24: every observation carries an alert for exactly those of the five
\* conditions that hold (fuel below 25 %, driver hours remaining below 2,
\* heavy traffic, storm or fog, strike alert), one alert per condition and
\* no other, and carries the truck and environment it was given.
C24_AlertsExact ==
    \A i \in 1..Len(observation_history) :
        LET o == observation_history[i]
            Has(text) == \E k \in 1..Len(o.alerts) : Contains(o.alerts[k], text)
            held == { c \in 1..5 :
                        \/ c = 1 /\ o.truck.fuel_level_percent < 25
                        \/ c = 2 /\ o.truck.driver_hours_remaining < 2
                        \/ c = 3 /\ o.environment.traffic_level = "heavy"
                        \/ c = 4 /\ o.environment.weather_condition
                                        \in {"storm", "fog"}
                        \/ c = 5 /\ o.environment.is_strike_alert }
        IN /\ (1 \in held) <=> Has("Low fuel")
           /\ (2 \in held) <=> Has("Driver rest needed")
           /\ (3 \in held) <=> Has("Heavy traffic")
           /\ (4 \in held) <=> Has("Adverse weather")
           /\ (5 \in held) <=> Has("Strike alert")
           /\ Len(o.alerts) = Cardinality(held)

\* one observation with all five alerts and one on the thresholds with none
C24_Witness ==
    /\ Len(observation_history) = 2
    /\ Len(observation_history[1].alerts) = 5
    /\ observation_history[2].truck.fuel_level_percent = 25
    /\ observation_history[2].truck.driver_hours_remaining = 2
    /\ observation_history[2].alerts = <<>>

(***************************************************************************)
(* Confidence                                                              *)
(***************************************************************************)
\* C25: the confidence of a Reasoning is 95 with no constraints and no
\* opportunities, 90 with constraints, 85 with opportunities and no
\* constraints, each less 10 when the advisory collaborator is unavailable,
\* as it is for a supervisor whose grok_client is None.
C25_ConfidenceByCase ==
    \A i \in 1..Len(decision_history) :
        LET reasoning == decision_history[i].reasoning
            base == IF reasoning.constraints # <<>> THEN 90
                    ELSE IF reasoning.opportunities # <<>> THEN 85
                    ELSE 95
            penalty == IF grok_client = None THEN 10 ELSE 0
        IN reasoning.confidence = base - penalty

C27_PooledWithinCapacity ==
    \A m \in MissionIds :
        missions[m].pooled_loads # <<>>
            => MissionLoadTons(missions[m])
                   <= vehicles[missions[m].vehicle_id].capacity_tons

(***************************************************************************)
(* Load matching                                                           *)
(***************************************************************************)
LinksOfLoad(l) == SelectSeq(mission_load_rows, LAMBDA r : r.load_id = l)

\* C28: match_load_to_mission succeeds only for a load in status POSTED and
\* sets it to MATCHED; across any sequence of match and cancel calls a load
\* is linked to at most one mission, and a matched load is never cancelled
\* or matched again.
C28_MatchedOnce ==
    /\ [](\A l \in LoadRowIds :
              /\ Len(LinksOfLoad(l)) <= 1
              /\ load_rows[l].status = "matched"
                     <=> /\ Len(LinksOfLoad(l)) = 1
                         /\ LinksOfLoad(l)[1].mission_id =
                                load_rows[l].matched_mission_id)
    /\ [][\A l \in LoadRowIds :
              /\ load_rows[l].status = "matched"
                     => load_rows'[l] = load_rows[l]
              /\ load_rows'[l].status = "matched"
                     => load_rows[l].status \in {"posted", "matched"}
              /\ Len(LinksOfLoad(l)') > Len(LinksOfLoad(l))
                     => /\ load_rows[l].status = "posted"
                        /\ load_rows'[l].status = "matched"]_vars

\* one load is matched to a mission and the other one is cancelled
C28_Witness ==
    \E l, k \in LoadRowIds :
        /\ load_rows[l].status = "matched"
        /\ Len(LinksOfLoad(l)) = 1
        /\ load_rows[k].status = "cancelled"

(***************************************************************************)
(* Mission lifecycle                                                       *)
(***************************************************************************)
\* position of a status on the way from start to completion
StatusRank(status) ==
    CASE status = "en_route_pickup" -> 1
      [] status = "at_pickup" -> 2
      [] status = "loading" -> 3
      [] status = "in_transit" -> 4
      [] status = "at_delivery" -> 5
      [] status = "unloading" -> 6
      [] status = "completed" -> 7
      [] OTHER -> 0

\* C29: under start, update-status, complete and cancel a mission's status
\* only moves forward along EN_ROUTE_PICKUP, AT_PICKUP, LOADING,
\* IN_TRANSIT, AT_DELIVERY, UNLOADING, COMPLETED, or to CANCELLED; a
\* COMPLETED mission never changes status again and a CANCELLED mission
\* never becomes active again.
C29_StatusMovesForward ==
    [][(StartStep \/ UpdateStatusStep \/ CompleteStep \/ CancelStep)
          => \A m \in OrmMissionIds :
                 LET old == mission_rows[m].status
                     new == mission_rows'[m].status
                 IN /\ new # old
                        => \/ new = "cancelled"
                           \/ /\ StatusRank(new) > StatusRank(old)
                              /\ old # "cancelled"
                    /\ old = "completed" => new = "completed"
                    /\ old = "cancelled" => new = "cancelled"]_vars

\* one mission was driven to COMPLETED by the lifecycle endpoints and the
\* other one was cancelled on the way
C29_Witness ==
    \E m, k \in OrmMissionIds :
        /\ mission_rows[m].status = "completed"
        /\ mission_rows[m].actual_start = "utcnow"
        /\ mission_rows[m].actual_end = "utcnow"
        /\ mission_rows[k].status = "cancelled"
        /\ mission_rows[k].actual_start = "utcnow"

====
